---- MODULE Spec2Model ----
(***************************************************************************)
(* Model of the numerical core of ivivc-level-selector                     *)
(* (src/utils/deconvolution.py, src/utils/ivivc_calculations.py,           *)
(* src/utils/dissolution_models.py).                                       *)
(*                                                                         *)
(* The functions of the core are pure.  A behaviour is one call: Init      *)
(* draws the function and its arguments, the call action applies the       *)
(* function as the code computes it and stores the returned value.         *)
(*                                                                         *)
(* Floating point values are modelled as exact rationals <<num, den>> in   *)
(* lowest terms with den > 0.  <<0, 0>> stands for a value that is not a   *)
(* number (numpy's nan, e.g. the mean of an empty array).                  *)
(***************************************************************************)
EXTENDS Integers, Sequences, FiniteSets

VARIABLES op, args, ret, pc

vars == <<op, args, ret, pc>>

(***************************************************************************)
(* Bounds of the model.                                                    *)
(***************************************************************************)
\* longest time series handed to wagner_nelson
MaxLenWN == 3
\* largest sample time
MaxT == 3
\* largest magnitude of a concentration sample
MaxC == 1
\* ke ranges over k/2 for k in -2..MaxKe2
MaxKe2 == 3
\* longest array of one formulation handed to level_a_correlation
MaxLenA == 2
\* most paired observations handed to level_c_correlation
MaxLenC == 3
\* largest parameter value handed to level_c_correlation
MaxVC == 1
\* longest pair of arrays handed to compute_prediction_error
MaxLenPE == 2
\* predicted values range over 20 - MaxDev .. 20 + MaxDev
MaxDev == 3
\* longest pair of profiles handed to compute_f1_f2
MaxLenF == 2
\* longest profile handed to compute_mdt and compute_de
MaxLenD == 3
\* largest release value of a profile
MaxRel == 3

\* the formulations (A, B, C) whose parameters build_correlation_matrix
\* tabulates
NForm == 3

\* longest series handed to numerical_deconvolution
MaxLenND == 3

\* longest grid handed to convolve_dissolution_pk
MaxLenCv == 3

\* last sampling hour of a plasma curve of one_compartment_oral
MaxHour == 6

\* number of bits of the significand of the binary floating-point model
Precision == 8

\* longest grid of the convolution round trip
MaxLenRT == 3

(***************************************************************************)
(* Exact rational arithmetic standing for numpy float arithmetic.          *)
(***************************************************************************)
Abs(n) == IF n < 0 THEN -n ELSE n

RECURSIVE GCD(_, _)
GCD(a, b) == IF b = 0 THEN a ELSE GCD(b, a % b)

NaN == <<0, 0>>

IsNaN(a) == a[2] = 0

Norm(n, d) ==
    IF d = 0 THEN NaN
    ELSE LET g == GCD(Abs(n), Abs(d))
             s == IF d < 0 THEN -1 ELSE 1
         IN  <<(s * n) \div g, (s * d) \div g>>

R(n) == <<n, 1>>

\* common factors are divided out before the products are formed, which
\* keeps the intermediate integers small
RAdd(a, b) == IF IsNaN(a) \/ IsNaN(b) THEN NaN
              ELSE LET g == GCD(a[2], b[2])
                   IN  Norm(a[1] * (b[2] \div g) + b[1] * (a[2] \div g),
                            (a[2] \div g) * b[2])

RSub(a, b) == IF IsNaN(a) \/ IsNaN(b) THEN NaN
              ELSE LET g == GCD(a[2], b[2])
                   IN  Norm(a[1] * (b[2] \div g) - b[1] * (a[2] \div g),
                            (a[2] \div g) * b[2])

RMul(a, b) == IF IsNaN(a) \/ IsNaN(b) THEN NaN
              ELSE IF a[1] = 0 \/ b[1] = 0 THEN <<0, 1>>
              ELSE LET g1 == GCD(Abs(a[1]), b[2])
                       g2 == GCD(Abs(b[1]), a[2])
                   IN  Norm((a[1] \div g1) * (b[1] \div g2),
                            (a[2] \div g2) * (b[2] \div g1))

\* a zero divisor gives a value that is not a number
RDiv(a, b) == IF IsNaN(a) \/ IsNaN(b) \/ b[1] = 0 THEN NaN
              ELSE IF a[1] = 0 THEN <<0, 1>>
              ELSE LET g1 == GCD(Abs(a[1]), Abs(b[1]))
                       g2 == GCD(a[2], b[2])
                   IN  Norm((a[1] \div g1) * (b[2] \div g2),
                            (a[2] \div g2) * (b[1] \div g1))

\* comparisons with nan are false, as in IEEE arithmetic
RLt(a, b) == /\ ~IsNaN(a)
             /\ ~IsNaN(b)
             /\ LET g == GCD(a[2], b[2])
                IN  a[1] * (b[2] \div g) < b[1] * (a[2] \div g)
RLe(a, b) == /\ ~IsNaN(a)
             /\ ~IsNaN(b)
             /\ LET g == GCD(a[2], b[2])
                IN  a[1] * (b[2] \div g) <= b[1] * (a[2] \div g)
RGt(a, b) == RLt(b, a)
REq(a, b) == ~IsNaN(a) /\ ~IsNaN(b) /\ a = b

RAbs(a) == <<Abs(a[1]), a[2]>>

RMin(a, b) == IF RLe(a, b) THEN a ELSE b
RMax(a, b) == IF RLe(b, a) THEN a ELSE b

\* np.asarray(v, dtype=float)
asarray(v) == [i \in 1..Len(v) |-> R(v[i])]

RECURSIVE RSumTo(_, _)
RSumTo(s, n) == IF n = 0 THEN R(0) ELSE RAdd(RSumTo(s, n - 1), s[n])

\* np.sum
RSum(s) == RSumTo(s, Len(s))

(***************************************************************************)
(* src/utils/deconvolution.py: wagner_nelson                               *)
(***************************************************************************)
\* the mutant drops the lower clip bound
clip_upper_only(x, lo, hi) == RMin(x, hi)

\* np.clip(x, lo, hi)
clip(x, lo, hi) == RMin(RMax(x, lo), hi)

\* the mutant integrates with the left rectangle rule
trapezoid_left(c0, c1, t0, t1) == RMul(c0, RSub(t1, t0))

\* the mutant integrates with the right rectangle rule
trapezoid_right(c0, c1, t0, t1) == RMul(c1, RSub(t1, t0))

\* 0.5 * (conc[i - 1] + conc[i]) * (times[i] - times[i - 1])
trapezoid(c0, c1, t0, t1) == RMul(RMul(<<1, 2>>, RAdd(c0, c1)), RSub(t1, t0))

RECURSIVE auc_cumulative_at(_, _, _)
auc_cumulative_at(times, conc, i) ==
    IF i = 1 THEN R(0)
    ELSE RAdd(auc_cumulative_at(times, conc, i - 1),
              trapezoid(conc[i - 1], conc[i], times[i - 1], times[i]))

auc_cumulative(times, conc) ==
    [i \in 1..Len(times) |-> auc_cumulative_at(times, conc, i)]

\* auc_cumulative[-1] + conc[-1] / ke if ke > 0 else auc_cumulative[-1]
auc_total(auc_last, c_last, ke) ==
    IF RGt(ke, R(0)) THEN RAdd(auc_last, RDiv(c_last, ke)) ELSE auc_last

\* conc + ke * auc_cumulative
amount_absorbed(conc, ke, auc) ==
    [i \in 1..Len(conc) |-> RAdd(conc[i], RMul(ke, auc[i]))]

\* amount_absorbed / denom if denom > 0 else zeros, then clipped to [0, 1]
fraction_absorbed(amount, denom) ==
    LET raw == IF RGt(denom, R(0))
               THEN [i \in 1..Len(amount) |-> RDiv(amount[i], denom)]
               ELSE [i \in 1..Len(amount) |-> R(0)]
    IN  [i \in 1..Len(raw) |-> clip(raw[i], R(0), R(1))]

\* wagner_nelson on arrays of floats, which np.asarray leaves as they are
wagner_nelson_floats(times, conc, ke) ==
    LET n      == Len(times)
        auc    == auc_cumulative(times, conc)
        total  == auc_total(auc[n], conc[n], ke)
        amount == amount_absorbed(conc, ke, auc)
        denom  == RMul(ke, total)
    IN  [times             |-> times,
         fraction_absorbed |-> fraction_absorbed(amount, denom),
         auc_cumulative    |-> auc,
         auc_total         |-> total,
         amount_absorbed   |-> amount]

wagner_nelson(times_in, conc_in, ke) ==
    wagner_nelson_floats(asarray(times_in), asarray(conc_in), ke)

(***************************************************************************)
(* src/utils/ivivc_calculations.py: level_a_correlation,                   *)
(* level_c_correlation and the scipy.stats.linregress they call.           *)
(*                                                                         *)
(* A square root or a t-distribution tail that is not a rational number    *)
(* is kept as a term: <<"sqrt", num, den>> and <<"tdist", r_squared, df>>. *)
(***************************************************************************)
ISqrt(n) == CHOOSE k \in 0..n : k * k <= n /\ n < (k + 1) * (k + 1)

IsSquare(n) == ISqrt(n) * ISqrt(n) = n

\* np.sqrt of a non-negative rational
RSqrt(q) == IF IsSquare(q[1]) /\ IsSquare(q[2])
            THEN <<ISqrt(q[1]), ISqrt(q[2])>>
            ELSE <<"sqrt", q[1], q[2]>>

\* np.mean
RMean(s) == RDiv(RSum(s), R(Len(s)))

\* one entry of np.cov(x, y, bias=1): mean((a - mean(a)) * (b - mean(b)))
cov_bias(a, b) ==
    LET mean_a == RMean(a)
        mean_b == RMean(b)
    IN  RMean([i \in 1..Len(a) |->
                  RMul(RSub(a[i], mean_a), RSub(b[i], mean_b))])

all_identical(x) == \A i \in 1..Len(x) : x[i] = x[1]

\* r = 0 if ssxm == 0 or ssym == 0, else ssxym / sqrt(ssxm * ssym) limited to
\* [-1, 1]; the callers square it
r_squared_of(ssxm, ssxym, ssym) ==
    IF ssxm = R(0) \/ ssym = R(0) THEN R(0)
    ELSE RMin(RDiv(RMul(ssxym, ssxym), RMul(ssxm, ssym)), R(1))

\* the two-sided p-value: for n = 2 it is 1 when the two y are equal and 0
\* otherwise; for n > 2 it is 2 * t.sf(|t|, n - 2), which is 1 when r = 0
p_value_of(y, r2) ==
    IF Len(y) = 2 THEN (IF y[1] = y[2] THEN R(1) ELSE R(0))
    ELSE IF r2 = R(0) THEN R(1)
    ELSE <<"tdist", r2, Len(y) - 2>>

\* 0 for n = 2, else sqrt((1 - r**2) * ssym / ssxm / df)
std_err_of(n, r2, ssxm, ssym) ==
    IF n = 2 THEN R(0)
    ELSE RSqrt(RDiv(RDiv(RMul(RSub(R(1), r2), ssym), ssxm), R(n - 2)))

\* scipy.stats.linregress(x, y) on at least two pairs; identical x values
\* raise ValueError
linregress(x, y) ==
    IF all_identical(x) THEN [fault |-> "ValueError"]
    ELSE LET ssxm  == cov_bias(x, x)
             ssxym == cov_bias(x, y)
             ssym  == cov_bias(y, y)
             r2    == r_squared_of(ssxm, ssxym, ssym)
             slope == RDiv(ssxym, ssxm)
         IN  [fault     |-> "none",
              slope     |-> slope,
              intercept |-> RSub(RMean(y), RMul(slope, RMean(x))),
              r_squared |-> r2,
              p_value   |-> p_value_of(y, r2),
              std_err   |-> std_err_of(Len(x), r2, ssxm, ssym)]

\* the mutant fits whenever there is at least one pair
too_few_points_lt1(n) == n < 1

\* len(x) < 2
too_few_points(n) == n < 2

\* the result returned below two pairs
sentinel == [fault |-> "none", slope |-> R(0), intercept |-> R(0),
             r_squared |-> R(0), p_value |-> R(1), std_err |-> R(0)]

\* the mutant takes the whole of the array at hand
len_own(a, b) == a

Min(a, b) == IF a < b THEN a ELSE b

\* the loop of level_a_correlation over zip(dissolved_fractions,
\* absorbed_fractions): formulation k contributes the first
\* min(len(diss), len(abso)) values of each array
RECURSIVE pool(_, _)
pool(arrays, other) ==
    IF Len(arrays) = 0 \/ Len(other) = 0 THEN <<>>
    ELSE SubSeq(asarray(Head(arrays)), 1,
                Min(Len(Head(arrays)), Len(Head(other))))
         \o pool(Tail(arrays), Tail(other))

level_a_correlation(dissolved_fractions, absorbed_fractions) ==
    LET all_dissolved == pool(dissolved_fractions, absorbed_fractions)
        all_absorbed  == pool(absorbed_fractions, dissolved_fractions)
        fit == IF too_few_points(Len(all_dissolved)) THEN sentinel
               ELSE linregress(all_dissolved, all_absorbed)
    IN  [result        |-> fit,
         all_dissolved |-> all_dissolved,
         all_absorbed  |-> all_absorbed]

level_c_correlation(in_vitro_values, in_vivo_values) ==
    LET x == asarray(in_vitro_values)
        y == asarray(in_vivo_values)
        fit == IF too_few_points(Len(x)) THEN sentinel ELSE linregress(x, y)
    IN  [result   |-> fit,
         in_vitro |-> x,
         in_vivo  |-> y]

(***************************************************************************)
(* src/utils/ivivc_calculations.py: compute_prediction_error               *)
(***************************************************************************)
\* the mutant divides by the predicted value
pe_item_by_predicted(p, o) ==
    IF o # R(0) THEN RMul(RDiv(RSub(p, o), p), R(100)) ELSE R(0)

\* the mutant forgets to subtract the observed value
pe_item_ratio(p, o) ==
    IF o # R(0) THEN RMul(RDiv(p, o), R(100)) ELSE R(0)

\* pe = zeros; pe[mask] = (predicted[mask] - observed[mask]) / observed[mask]
\* * 100 with mask = observed != 0
pe_item(p, o) ==
    IF o # R(0) THEN RMul(RDiv(RSub(p, o), o), R(100)) ELSE R(0)

RECURSIVE RMaxTo(_, _)
RMaxTo(s, n) == IF n = 1 THEN s[1] ELSE RMax(RMaxTo(s, n - 1), s[n])

\* np.max of a non-empty array
RMaxOf(s) == RMaxTo(s, Len(s))

\* the mutant makes the mean criterion strict
passes_mean_strict(mean_abs_pe) == RLt(mean_abs_pe, R(10))

\* mean_abs_pe <= 10.0
passes_mean(mean_abs_pe) == RLe(mean_abs_pe, R(10))

\* max_abs_pe <= 15.0
passes_individual(max_abs_pe) == RLe(max_abs_pe, R(15))

compute_prediction_error(predicted_in, observed_in) ==
    LET predicted   == asarray(predicted_in)
        observed    == asarray(observed_in)
        pe          == [i \in 1..Len(predicted) |->
                           pe_item(predicted[i], observed[i])]
        abs_pe      == [i \in 1..Len(pe) |-> RAbs(pe[i])]
        mean_abs_pe == RMean(abs_pe)
        max_abs_pe  == IF Len(abs_pe) > 0 THEN RMaxOf(abs_pe) ELSE R(0)
    IN  [pe_values         |-> pe,
         abs_pe            |-> abs_pe,
         mean_abs_pe       |-> mean_abs_pe,
         max_abs_pe        |-> max_abs_pe,
         passes_mean       |-> passes_mean(mean_abs_pe),
         passes_individual |-> passes_individual(max_abs_pe),
         passes_overall    |-> /\ RLe(mean_abs_pe, R(10))
                               /\ RLe(max_abs_pe, R(15))]

(***************************************************************************)
(* src/utils/dissolution_models.py: compute_mdt, compute_de, compute_f1_f2 *)
(***************************************************************************)
\* np.diff
diff(s) == [i \in 1..(Len(s) - 1) |-> RSub(s[i + 1], s[i])]

\* np.trapezoid(y, x): sum(diff(x) * (y[1:] + y[:-1]) / 2)
_trapz(y, x) ==
    RSum([i \in 1..(Len(x) - 1) |->
             RDiv(RMul(RSub(x[i + 1], x[i]), RAdd(y[i + 1], y[i])), R(2))])

\* the mutant weights each interval by its right end
t_mid_right(times) == [i \in 1..(Len(times) - 1) |-> times[i + 1]]

\* (times[:-1] + times[1:]) / 2.0
t_mid(times) ==
    [i \in 1..(Len(times) - 1) |-> RDiv(RAdd(times[i], times[i + 1]), R(2))]

\* compute_mdt on arrays of floats, which np.asarray leaves as they are
compute_mdt_floats(times, release) ==
    LET delta_f == diff(release)
        mid     == t_mid(times)
    IN  IF RSum(delta_f) = R(0) THEN R(0)
        ELSE RDiv(RSum([i \in 1..Len(delta_f) |-> RMul(mid[i], delta_f[i])]),
                  RSum(delta_f))

compute_mdt(times_in, release_in) ==
    compute_mdt_floats(asarray(times_in), asarray(release_in))

\* release[-1] * (times[-1] - times[0])
max_possible(times, release) ==
    RMul(release[Len(release)], RSub(times[Len(times)], times[1]))

\* compute_de on arrays of floats, which np.asarray leaves as they are
compute_de_floats(times, release) ==
    IF max_possible(times, release) = R(0) THEN R(0)
    ELSE RMul(RDiv(_trapz(release, times), max_possible(times, release)),
              R(100))

compute_de(times_in, release_in) ==
    compute_de_floats(asarray(times_in), asarray(release_in))

RECURSIVE Pow10(_)
Pow10(e) == IF e = 0 THEN 1 ELSE 10 * Pow10(e - 1)

\* 50 * log10(100 / sqrt(arg)) for arg >= 1: the number 100 - 25 * e when
\* arg = 10 ** e, else kept as the term <<"f2", num, den>> of arg = num / den
f2_of(arg) ==
    IF IsNaN(arg) THEN NaN
    ELSE IF \E e \in 0..8 : arg = R(Pow10(e))
         THEN R(100 - 25 * (CHOOSE e \in 0..8 : arg = R(Pow10(e))))
         ELSE <<"f2", arg[1], arg[2]>>

\* the mutant divides without looking at the reference sum
f1_of_unguarded(sum_diff, sum_ref) == RMul(RDiv(sum_diff, sum_ref), R(100))

\* (np.sum(diff) / np.sum(ref)) * 100.0 if np.sum(ref) > 0 else 0.0
f1_of(sum_diff, sum_ref) ==
    IF RGt(sum_ref, R(0)) THEN RMul(RDiv(sum_diff, sum_ref), R(100)) ELSE R(0)

compute_f1_f2(ref_profile, test_profile) ==
    LET ref  == asarray(ref_profile)
        test == asarray(test_profile)
        n    == Len(ref)
        adiff == [i \in 1..n |-> RAbs(RSub(ref[i], test[i]))]
        mean_sq_diff ==
            RDiv(RSum([i \in 1..n |->
                          RMul(RSub(ref[i], test[i]), RSub(ref[i], test[i]))]),
                 R(n))
    IN  [f1 |-> f1_of(RSum(adiff), RSum(ref)),
         f2 |-> f2_of(RAdd(R(1), mean_sq_diff))]

(***************************************************************************)
(* src/utils/ivivc_calculations.py: build_correlation_matrix               *)
(***************************************************************************)
\* np.zeros((n, m))
zeros2(n, m) == [i \in 1..n |-> [j \in 1..m |-> R(0)]]

\* the mutant hands the in vivo values to the fit as x and the in vitro values
\* as y
cell_fit_swapped(in_vitro_params, in_vivo_params, iv_name, vivo_name) ==
    level_c_correlation(in_vivo_params[vivo_name],
                        in_vitro_params[iv_name]).result

\* level_c_correlation(in_vitro_params[iv_name], in_vivo_params[vivo_name])
cell_fit(in_vitro_params, in_vivo_params, iv_name, vivo_name) ==
    level_c_correlation(in_vitro_params[iv_name],
                        in_vivo_params[vivo_name]).result

\* the nested loops over enumerate(iv_names) and enumerate(vivo_names), cell
\* k = (i - 1) * n_vivo + (j - 1) next; a fit that raises ends the call
RECURSIVE bcm_loop(_, _, _, _, _, _)
bcm_loop(in_vitro_params, in_vivo_params, iv_names, vivo_names, k, acc) ==
    IF k = Len(iv_names) * Len(vivo_names) THEN acc
    ELSE LET i   == (k \div Len(vivo_names)) + 1
             j   == (k % Len(vivo_names)) + 1
             fit == cell_fit(in_vitro_params, in_vivo_params,
                             iv_names[i], vivo_names[j])
         IN  IF fit.fault # "none" THEN [fault |-> fit.fault]
             ELSE bcm_loop(in_vitro_params, in_vivo_params, iv_names,
                           vivo_names, k + 1,
                           [acc EXCEPT
                               !.r_squared_matrix[i][j] = fit.r_squared,
                               !.slope_matrix[i][j] = fit.slope,
                               !.p_value_matrix[i][j] = fit.p_value])

build_correlation_matrix(in_vitro_params, in_vivo_params, iv_names, vivo_names) ==
    LET n_iv   == Len(iv_names)
        n_vivo == Len(vivo_names)
    IN  bcm_loop(in_vitro_params, in_vivo_params, iv_names, vivo_names, 0,
                 [fault            |-> "none",
                  r_squared_matrix |-> zeros2(n_iv, n_vivo),
                  slope_matrix     |-> zeros2(n_iv, n_vivo),
                  p_value_matrix   |-> zeros2(n_iv, n_vivo),
                  iv_names         |-> iv_names,
                  vivo_names       |-> vivo_names])

(***************************************************************************)
(* src/utils/deconvolution.py: numerical_deconvolution                     *)
(***************************************************************************)
\* the mutant leaves negative rates in place
maximum_off(x, lo) == x

\* np.maximum(x, lo)
maximum(x, lo) == RMax(x, lo)

\* the inner loop over j in range(i): the sum of
\* r[j] * h[i - j] * (times[min(j + 1, n - 1)] - times[j]); r holds the rates
\* of the samples before i, not yet floored
RECURSIVE sum_prev(_, _, _, _, _)
sum_prev(r, h, times, i, j) ==
    IF j = 0 THEN R(0)
    ELSE RAdd(sum_prev(r, h, times, i, j - 1),
              RMul(RMul(r[j], h[i - j + 1]),
                   RSub(times[Min(j + 1, Len(times))], times[j])))

\* rate_step with the rates before i floored before they enter the sum
rate_step_floored(times, conc, h, dt, r, i) ==
    IF RGt(h[1], R(0)) /\ i > 1
    THEN LET time_step == RSub(times[i], times[i - 1])
             floored   == [j \in 1..Len(r) |-> RMax(r[j], R(0))]
         IN  IF RGt(time_step, R(0))
             THEN RDiv(RSub(conc[i], sum_prev(floored, h, times, i, i - 1)),
                       RMul(h[1], time_step))
             ELSE R(0)
    ELSE IF i = 1 /\ RGt(h[1], R(0))
         THEN RDiv(conc[1], RMul(h[1], dt))
         ELSE R(0)

\* one pass of the outer loop: r[i] from the rates before it
rate_step(times, conc, h, dt, r, i) ==
    IF RGt(h[1], R(0)) /\ i > 1
    THEN LET time_step == RSub(times[i], times[i - 1])
         IN  IF RGt(time_step, R(0))
             THEN RDiv(RSub(conc[i], sum_prev(r, h, times, i, i - 1)),
                       RMul(h[1], time_step))
             ELSE R(0)
    ELSE IF i = 1 /\ RGt(h[1], R(0))
         THEN RDiv(conc[1], RMul(h[1], dt))
         ELSE R(0)

\* the rates r[0..i-1] the outer loop has assigned after i passes
RECURSIVE rate_loop(_, _, _, _, _)
rate_loop(times, conc, h, dt, i) ==
    IF i = 0 THEN <<>>
    ELSE LET r == rate_loop(times, conc, h, dt, i - 1)
         IN  Append(r, rate_step(times, conc, h, dt, r, i))

\* fa_cumulative[i] = fa_cumulative[i - 1]
\*                    + 0.5 * (r[i - 1] + r[i]) * (times[i] - times[i - 1])
RECURSIVE fa_cumulative_at(_, _, _)
fa_cumulative_at(times, r, i) ==
    IF i = 1 THEN R(0)
    ELSE RAdd(fa_cumulative_at(times, r, i - 1),
              RMul(RMul(<<1, 2>>, RAdd(r[i - 1], r[i])),
                   RSub(times[i], times[i - 1])))

\* fa_cumulative / fa_cumulative[-1] if fa_cumulative[-1] > 0
normalize(fa) ==
    IF RGt(fa[Len(fa)], R(0))
    THEN [i \in 1..Len(fa) |-> RDiv(fa[i], fa[Len(fa)])]
    ELSE fa

\* an empty series faults at fa_cumulative[-1]
numerical_deconvolution(times_in, conc_in, impulse_response, dt) ==
    LET times == asarray(times_in)
        conc  == asarray(conc_in)
        h     == asarray(impulse_response)
        n     == Len(times)
        raw   == rate_loop(times, conc, h, dt, n)
        r     == [i \in 1..n |-> maximum(raw[i], R(0))]
        fa    == [i \in 1..n |-> fa_cumulative_at(times, r, i)]
    IN  IF n = 0 THEN [fault |-> "IndexError"]
        ELSE [fault             |-> "none",
              times             |-> times,
              input_rate        |-> r,
              fraction_absorbed |-> normalize(fa)]

(***************************************************************************)
(* src/utils/pk_models.py: convolve_dissolution_pk                         *)
(***************************************************************************)
Max(a, b) == IF a > b THEN a ELSE b

\* the sum of a[j] * v[k - j] over the j from lo to hi
RECURSIVE convolve_sum(_, _, _, _, _)
convolve_sum(a, v, k, lo, hi) ==
    IF hi < lo THEN R(0)
    ELSE RAdd(convolve_sum(a, v, k, lo, hi - 1), RMul(a[hi], v[k - hi + 1]))

\* np.convolve(a, v) in its default mode 'full': len(a) + len(v) - 1 values,
\* each the sum over the j where both a[j] and v[k - j] exist; an empty
\* array raises ValueError
convolve(a, v) ==
    [k \in 1..(Len(a) + Len(v) - 1) |->
        convolve_sum(a, v, k, Max(1, k - Len(v) + 1), Min(k, Len(a)))]

\* the mutant takes a unit time step
time_step_unit(times) == R(1)

\* times[1] - times[0] if len(times) > 1 else 1.0
time_step(times) == IF Len(times) > 1 THEN RSub(times[2], times[1]) ELSE R(1)

convolve_dissolution_pk(times_in, dissolution_rate, impulse_resp) ==
    LET times == asarray(times_in)
        dt    == time_step(times)
        full  == convolve(asarray(dissolution_rate), asarray(impulse_resp))
        conv  == [k \in 1..Len(full) |-> RMul(full[k], dt)]
    IN  IF Len(dissolution_rate) = 0 \/ Len(impulse_resp) = 0
        THEN [fault |-> "ValueError"]
        ELSE [fault |-> "none",
              conv  |-> SubSeq(conv, 1, Min(Len(times), Len(conv)))]

(***************************************************************************)
(* src/utils/synthetic_data.py: generate_level_a_data                      *)
(*                                                                         *)
(* The body of the loop over formulation_names is split into its six       *)
(* groups of statements, so that the bodies of different formulations can  *)
(* be interleaved.  The curves involve exponentials; a call of a curve or  *)
(* moment function is kept as the term <<function, arguments...>>, equal   *)
(* to another term exactly when function and arguments are equal.  The     *)
(* time grids are named, not enumerated.                                   *)
(***************************************************************************)
formulation_names == <<"F1 (Fast)", "F2 (Medium)", "F3 (Slow)">>

Names == {formulation_names[i] : i \in 1..Len(formulation_names)}

\* {'F1 (Fast)': k_fast, 'F2 (Medium)': k_medium, 'F3 (Slow)': k_slow}
k_values(k_fast, k_medium, k_slow) ==
    [name \in Names |-> IF name = "F1 (Fast)" THEN k_fast
                        ELSE IF name = "F2 (Medium)" THEN k_medium
                        ELSE k_slow]

ke_a == <<1, 10>>
vd_a == R(50)
dose_a == R(100)

\* {}
empty_dict == [name \in {} |-> <<>>]

\* d[key] = value
dict_set(d, key, value) ==
    [x \in (DOMAIN d) \cup {key} |-> IF x = key THEN value ELSE d[x]]

unset == <<"unset">>

\* the mutant keeps the variables of the loop body in one place for all
\* formulations
locals_shared(name) == "body"

\* the variables of the loop body (k, diss, pk, ...) of one formulation
locals_of(name) == name

\* the state before the loop: seven empty dicts, no formulation started
before_loop(k_fast, k_medium, k_slow) ==
    [k_values                  |-> k_values(k_fast, k_medium, k_slow),
     at                        |-> [name \in Names |-> 0],
     locals                    |-> [slot \in Names \cup {"body"} |->
                                      [k |-> unset, diss |-> unset,
                                       pk |-> unset]],
     dissolution_profiles      |-> empty_dict,
     dissolution_profiles_fine |-> empty_dict,
     pk_profiles               |-> empty_dict,
     pk_profiles_fine          |-> empty_dict,
     fraction_absorbed         |-> empty_dict,
     pk_params                 |-> empty_dict,
     dissolution_params        |-> empty_dict]

\* np.log(2) / k if k > 0 else np.inf
t50_of(k) == IF RGt(k, R(0)) THEN <<"log(2)/", k>> ELSE <<"inf">>

\* the next group of statements of the body of formulation name
body_step(st, name) ==
    LET slot == locals_of(name)
        loc  == st.locals[slot]
        next == [st EXCEPT !.at[name] = @ + 1]
    IN  CASE st.at[name] = 0 ->
               [next EXCEPT !.locals[slot].k = st.k_values[name]]
          [] st.at[name] = 1 ->
               LET diss == <<"first_order_release", "times_diss", loc.k,
                             R(100)>>
                   diss_fine == <<"first_order_release", "times_fine", loc.k,
                                  R(100)>>
               IN  [next EXCEPT
                       !.locals[slot].diss = diss,
                       !.dissolution_profiles =
                           dict_set(@, name, diss),
                       !.dissolution_profiles_fine =
                           dict_set(@, name, diss_fine)]
          [] st.at[name] = 2 ->
               LET ka == RMul(loc.k, <<3, 2>>)
                   pk == <<"one_compartment_oral", "times_pk", dose_a, ka,
                           ke_a, vd_a>>
                   pk_fine == <<"one_compartment_oral", "times_fine", dose_a,
                                ka, ke_a, vd_a>>
               IN  [next EXCEPT
                       !.locals[slot].pk = pk,
                       !.pk_profiles = dict_set(@, name, pk),
                       !.pk_profiles_fine = dict_set(@, name, pk_fine)]
          [] st.at[name] = 3 ->
               [next EXCEPT
                   !.fraction_absorbed =
                       dict_set(@, name,
                                <<"wagner_nelson", "times_pk", loc.pk, ke_a>>)]
          [] st.at[name] = 4 ->
               [next EXCEPT
                   !.pk_params =
                       dict_set(@, name,
                           [Cmax |-> <<"max", loc.pk>>,
                            Tmax |-> <<"times_pk[argmax]", loc.pk>>,
                            AUC  |-> <<"compute_auc", "times_pk", loc.pk>>,
                            MRT  |-> <<"compute_mrt", "times_pk", loc.pk>>])]
          [] st.at[name] = 5 ->
               [next EXCEPT
                   !.dissolution_params =
                       dict_set(@, name,
                           [MDT |-> <<"compute_mdt", "times_diss", loc.diss>>,
                            DE  |-> <<"compute_de", "times_diss", loc.diss>>,
                            t50 |-> t50_of(loc.k),
                            k   |-> loc.k])]

BodySteps == 6

\* the whole body of one formulation
RECURSIVE body(_, _)
body(st, name) ==
    IF st.at[name] = BodySteps THEN st ELSE body(body_step(st, name), name)

\* for name in formulation_names: the bodies one after the other
RECURSIVE loop(_, _)
loop(st, i) ==
    IF i > Len(formulation_names) THEN st
    ELSE loop(body(st, formulation_names[i]), i + 1)

\* the returned bundle: the dicts filled by the loop and the IR reference
bundle(st) ==
    [times_dissolution         |-> "times_diss",
     times_pk                  |-> "times_pk",
     times_fine                |-> "times_fine",
     dissolution_profiles      |-> st.dissolution_profiles,
     dissolution_profiles_fine |-> st.dissolution_profiles_fine,
     pk_profiles               |-> st.pk_profiles,
     pk_profiles_fine          |-> st.pk_profiles_fine,
     fraction_absorbed         |-> st.fraction_absorbed,
     ir_dissolution      |-> <<"first_order_release", "times_diss", R(5),
                               R(100)>>,
     ir_dissolution_fine |-> <<"first_order_release", "times_fine", R(5),
                               R(100)>>,
     ir_pk               |-> <<"one_compartment_oral", "times_pk", dose_a,
                               R(5), ke_a, vd_a>>,
     ir_pk_fine          |-> <<"one_compartment_oral", "times_fine", dose_a,
                               R(5), ke_a, vd_a>>,
     pk_params                 |-> st.pk_params,
     dissolution_params        |-> st.dissolution_params,
     ke                        |-> ke_a,
     vd                        |-> vd_a,
     dose                      |-> dose_a,
     formulation_names         |-> formulation_names]

generate_level_a_data(k_fast, k_medium, k_slow) ==
    bundle(loop(before_loop(k_fast, k_medium, k_slow), 1))

(***************************************************************************)
(* src/utils/pk_models.py: one_compartment_oral                            *)
(*                                                                         *)
(* exp(-ke * t) and exp(-ka * t) are u^t and v^t with u = exp(-ke) and     *)
(* v = exp(-ka).  The model takes u and v rational and t a whole number    *)
(* of hours, which makes the curve exact; scale stands for the positive    *)
(* factor dose * ka / (vd * |ka - ke|), or (dose / vd) * ka when ka = ke.  *)
(***************************************************************************)
RECURSIVE RPow(_, _)
RPow(u, n) == IF n = 0 THEN R(1) ELSE RMul(u, RPow(u, n - 1))

\* ka > ke exactly when exp(-ka) < exp(-ke)
one_compartment_oral(t, scale, u, v) ==
    IF u = v
    THEN [i \in 1..Len(t) |-> RMul(RMul(scale, R(t[i])), RPow(u, t[i]))]
    ELSE LET coeff == IF RLt(v, u) THEN scale ELSE RSub(R(0), scale)
         IN  [i \in 1..Len(t) |->
                 RMul(coeff, RSub(RPow(u, t[i]), RPow(v, t[i])))]

(***************************************************************************)
(* src/utils/dissolution_models.py: first_order_release                    *)
(*                                                                         *)
(* np.exp(-x) is enclosed to four decimals: the float lies between         *)
(* exp_below(x) and exp_above(x), and first_order_release is the set of    *)
(* the arrays whose every sample is computed from one of the two ends.     *)
(* compute_mdt is a quotient of two values linear in the samples, so its   *)
(* extremes over the enclosure are taken at these arrays.                  *)
(***************************************************************************)
\* exp(-x) to four decimals, rounded down, for the x = k * t of the model
exp_below(x) ==
    CASE x = <<0, 1>>  -> R(1)
      [] x = <<3, 10>> -> Norm(7408, 10000)
      [] x = <<3, 5>>  -> Norm(5488, 10000)
      [] x = <<6, 5>>  -> Norm(3011, 10000)
      [] x = <<12, 5>> -> Norm(907, 10000)
      [] x = <<24, 5>> -> Norm(82, 10000)
      [] x = <<36, 5>> -> Norm(7, 10000)
      [] x = <<72, 5>> -> Norm(0, 10000)

\* exp(-x) to four decimals, rounded up; exp(0) is exactly 1
exp_above(x) ==
    IF x = <<0, 1>> THEN R(1) ELSE RAdd(exp_below(x), <<1, 10000>>)

\* the mutant returns the fraction not yet released
release_remaining(f_max, e) == RMul(f_max, e)

\* f_max * (1.0 - np.exp(-k * t)) for one sample, e the value of np.exp
release_at(f_max, e) == RMul(f_max, RSub(R(1), e))

\* the arrays of the first n samples
RECURSIVE release_upto(_, _, _, _)
release_upto(t, k, f_max, n) ==
    IF n = 0 THEN {<<>>}
    ELSE {Append(head, release_at(f_max, e)) :
             head \in release_upto(t, k, f_max, n - 1),
             e \in {exp_below(RMul(k, R(t[n]))), exp_above(RMul(k, R(t[n])))}}

first_order_release(t, k, f_max) == release_upto(t, k, f_max, Len(t))

(***************************************************************************)
(* src/pages/2_Level_Selector.py: the scoring of the six answers           *)
(*                                                                         *)
(* A Python string is a sequence of characters, one one-character string   *)
(* per character; "em-dash", "en-dash" and "ge-sign" each stand for the    *)
(* one character of that name.  The messages appended to the reasons and   *)
(* caveats are kept whole, with these three characters written in ASCII.   *)
(***************************************************************************)
\* needle in haystack
contains(haystack, needle) ==
    \E i \in 0..(Len(haystack) - Len(needle)) :
        SubSeq(haystack, i + 1, i + Len(needle)) = needle

UpperCase ==
    <<"A", "B", "C", "D", "E", "F", "G", "H", "I", "J", "K", "L", "M", "N",
      "O", "P", "Q", "R", "S", "T", "U", "V", "W", "X", "Y", "Z">>

LowerCase ==
    <<"a", "b", "c", "d", "e", "f", "g", "h", "i", "j", "k", "l", "m", "n",
      "o", "p", "q", "r", "s", "t", "u", "v", "w", "x", "y", "z">>

\* str.lower()
lower(s) ==
    [i \in 1..Len(s) |->
        IF \E j \in 1..Len(UpperCase) : UpperCase[j] = s[i]
        THEN LowerCase[CHOOSE j \in 1..Len(UpperCase) : UpperCase[j] = s[i]]
        ELSE s[i]]

\* a radio group without a selection (index=None)
None == <<"None">>

\* the options of question 1, each a sequence of characters
Q1Options ==
    <<
    \* Biowaiver for formulation/manufacturing changes
      <<"B", "i", "o", "w", "a", "i", "v", "e", "r", " ", "f", "o", "r", " ",
        "f", "o", "r", "m", "u", "l", "a", "t", "i", "o", "n", "/", "m", "a",
        "n", "u", "f", "a", "c", "t", "u", "r", "i", "n", "g", " ", "c", "h",
        "a", "n", "g", "e", "s">>,
    \* Setting clinically relevant dissolution specifications
      <<"S", "e", "t", "t", "i", "n", "g", " ", "c", "l", "i", "n", "i", "c",
        "a", "l", "l", "y", " ", "r", "e", "l", "e", "v", "a", "n", "t", " ",
        "d", "i", "s", "s", "o", "l", "u", "t", "i", "o", "n", " ", "s", "p",
        "e", "c", "i", "f", "i", "c", "a", "t", "i", "o", "n", "s">>,
    \* Formulation screening during development
      <<"F", "o", "r", "m", "u", "l", "a", "t", "i", "o", "n", " ", "s", "c",
        "r", "e", "e", "n", "i", "n", "g", " ", "d", "u", "r", "i", "n", "g",
        " ", "d", "e", "v", "e", "l", "o", "p", "m", "e", "n", "t">>,
    \* Mechanistic understanding of release-PK relationship
      <<"M", "e", "c", "h", "a", "n", "i", "s", "t", "i", "c", " ", "u", "n",
        "d", "e", "r", "s", "t", "a", "n", "d", "i", "n", "g", " ", "o", "f",
        " ", "r", "e", "l", "e", "a", "s", "e", "en-dash", "P", "K", " ",
        "r", "e", "l", "a", "t", "i", "o", "n", "s", "h", "i", "p">>
    >>

\* the options of question 2
Q2Options ==
    <<
    \* Full plasma concentration-time profiles (>=8 timepoints per subject)
      <<"F", "u", "l", "l", " ", "p", "l", "a", "s", "m", "a", " ", "c", "o",
        "n", "c", "e", "n", "t", "r", "a", "t", "i", "o", "n", "-", "t", "i",
        "m", "e", " ", "p", "r", "o", "f", "i", "l", "e", "s", " ", "(",
        "ge-sign", "8", " ", "t", "i", "m", "e", "p", "o", "i", "n", "t",
        "s", " ", "p", "e", "r", " ", "s", "u", "b", "j", "e", "c", "t", ")">>,
    \* Summary PK parameters only (AUC, Cmax, Tmax, MRT)
      <<"S", "u", "m", "m", "a", "r", "y", " ", "P", "K", " ", "p", "a", "r",
        "a", "m", "e", "t", "e", "r", "s", " ", "o", "n", "l", "y", " ", "(",
        "A", "U", "C", ",", " ", "C", "m", "a", "x", ",", " ", "T", "m", "a",
        "x", ",", " ", "M", "R", "T", ")">>,
    \* Limited data (fewer than 6 timepoints per subject)
      <<"L", "i", "m", "i", "t", "e", "d", " ", "d", "a", "t", "a", " ", "(",
        "f", "e", "w", "e", "r", " ", "t", "h", "a", "n", " ", "6", " ", "t",
        "i", "m", "e", "p", "o", "i", "n", "t", "s", " ", "p", "e", "r", " ",
        "s", "u", "b", "j", "e", "c", "t", ")">>
    >>

\* the options of question 3
Q3Options ==
    <<
    \* >= 3 formulations
      <<"ge-sign", " ", "3", " ", "f", "o", "r", "m", "u", "l", "a", "t",
        "i", "o", "n", "s">>,
    \* 2 formulations
      <<"2", " ", "f", "o", "r", "m", "u", "l", "a", "t", "i", "o", "n", "s">>,
    \* 1 formulation + literature/reference data
      <<"1", " ", "f", "o", "r", "m", "u", "l", "a", "t", "i", "o", "n", " ",
        "+", " ", "l", "i", "t", "e", "r", "a", "t", "u", "r", "e", "/", "r",
        "e", "f", "e", "r", "e", "n", "c", "e", " ", "d", "a", "t", "a">>
    >>

\* the options of question 4
Q4Options ==
    <<
    \* Extended-release oral tablet/capsule
      <<"E", "x", "t", "e", "n", "d", "e", "d", "-", "r", "e", "l", "e", "a",
        "s", "e", " ", "o", "r", "a", "l", " ", "t", "a", "b", "l", "e", "t",
        "/", "c", "a", "p", "s", "u", "l", "e">>,
    \* Depot injectable (PLGA, ISFI, microspheres)
      <<"D", "e", "p", "o", "t", " ", "i", "n", "j", "e", "c", "t", "a", "b",
        "l", "e", " ", "(", "P", "L", "G", "A", ",", " ", "I", "S", "F", "I",
        ",", " ", "m", "i", "c", "r", "o", "s", "p", "h", "e", "r", "e", "s",
        ")">>,
    \* Transdermal patch
      <<"T", "r", "a", "n", "s", "d", "e", "r", "m", "a", "l", " ", "p", "a",
        "t", "c", "h">>,
    \* Other modified-release system
      <<"O", "t", "h", "e", "r", " ", "m", "o", "d", "i", "f", "i", "e", "d",
        "-", "r", "e", "l", "e", "a", "s", "e", " ", "s", "y", "s", "t", "e",
        "m">>
    >>

\* the options of question 5
Q5Options ==
    <<
    \* Yes -- IV bolus data available
      <<"Y", "e", "s", " ", "em-dash", " ", "I", "V", " ", "b", "o", "l",
        "u", "s", " ", "d", "a", "t", "a", " ", "a", "v", "a", "i", "l", "a",
        "b", "l", "e">>,
    \* Yes -- Oral IR/solution data available
      <<"Y", "e", "s", " ", "em-dash", " ", "O", "r", "a", "l", " ", "I",
        "R", "/", "s", "o", "l", "u", "t", "i", "o", "n", " ", "d", "a", "t",
        "a", " ", "a", "v", "a", "i", "l", "a", "b", "l", "e">>,
    \* No reference data available
      <<"N", "o", " ", "r", "e", "f", "e", "r", "e", "n", "c", "e", " ", "d",
        "a", "t", "a", " ", "a", "v", "a", "i", "l", "a", "b", "l", "e">>
    >>

\* the options of question 6
Q6Options ==
    <<
    \* Class I -- High solubility, High permeability
      <<"C", "l", "a", "s", "s", " ", "I", " ", "em-dash", " ", "H", "i",
        "g", "h", " ", "s", "o", "l", "u", "b", "i", "l", "i", "t", "y", ",",
        " ", "H", "i", "g", "h", " ", "p", "e", "r", "m", "e", "a", "b", "i",
        "l", "i", "t", "y">>,
    \* Class II -- Low solubility, High permeability
      <<"C", "l", "a", "s", "s", " ", "I", "I", " ", "em-dash", " ", "L",
        "o", "w", " ", "s", "o", "l", "u", "b", "i", "l", "i", "t", "y", ",",
        " ", "H", "i", "g", "h", " ", "p", "e", "r", "m", "e", "a", "b", "i",
        "l", "i", "t", "y">>,
    \* Class III -- High solubility, Low permeability
      <<"C", "l", "a", "s", "s", " ", "I", "I", "I", " ", "em-dash", " ",
        "H", "i", "g", "h", " ", "s", "o", "l", "u", "b", "i", "l", "i", "t",
        "y", ",", " ", "L", "o", "w", " ", "p", "e", "r", "m", "e", "a", "b",
        "i", "l", "i", "t", "y">>,
    \* Class IV -- Low solubility, Low permeability
      <<"C", "l", "a", "s", "s", " ", "I", "V", " ", "em-dash", " ", "L",
        "o", "w", " ", "s", "o", "l", "u", "b", "i", "l", "i", "t", "y", ",",
        " ", "L", "o", "w", " ", "p", "e", "r", "m", "e", "a", "b", "i", "l",
        "i", "t", "y">>
    >>

\* score_A = 0, ..., caveats = []
scores_init ==
    [score_A |-> 0, score_B |-> 0, score_C |-> 0,
     reasons_A |-> <<>>, reasons_B |-> <<>>, reasons_C |-> <<>>,
     caveats |-> <<>>]

\* Q1: regulatory goal
score_q1(st, q) ==
    IF contains(q,
                 <<"B", "i", "o", "w", "a", "i", "v", "e", "r">>)
    THEN [st EXCEPT
                 !.score_A = @ + 4,
                 !.reasons_A = Append(@,
                     "Biowaiver applications strongly favor Level A (FDA guidance)")]
    ELSE IF contains(q,
                 <<"d", "i", "s", "s", "o", "l", "u", "t", "i", "o", "n",
                   " ", "s", "p", "e", "c", "i", "f", "i", "c", "a", "t",
                   "i", "o", "n", "s">>)
    THEN [st EXCEPT
                 !.score_A = @ + 2,
                 !.score_C = @ + 2,
                 !.reasons_A = Append(@,
                     "Dissolution spec setting benefits from Level A"),
                 !.reasons_C = Append(@,
                     "Level C can support spec setting for individual parameters")]
    ELSE IF contains(q,
                 <<"s", "c", "r", "e", "e", "n", "i", "n", "g">>)
    THEN [st EXCEPT
                 !.score_C = @ + 3,
                 !.reasons_C = Append(@,
                     "Formulation screening is the primary use case for Level C")]
    ELSE IF contains(q,
                 <<"M", "e", "c", "h", "a", "n", "i", "s", "t", "i", "c">>)
    THEN [st EXCEPT
                 !.score_A = @ + 2,
                 !.score_C = @ + 2,
                 !.reasons_A = Append(@,
                     "Level A provides the most mechanistic detail"),
                 !.reasons_C = Append(@,
                     "Level C offers mechanistic insight for specific parameter pairs")]
    ELSE st

\* the mutant credits Level B, not Level C, for limited data
score_q2_limited_to_B(st, q) ==
    IF contains(q, <<"F", "u", "l", "l", " ", "p", "l", "a", "s", "m", "a">>)
    THEN [st EXCEPT !.score_A = @ + 3]
    ELSE IF contains(q, <<"S", "u", "m", "m", "a", "r", "y", " ", "P", "K">>)
    THEN [st EXCEPT !.score_B = @ + 2, !.score_C = @ + 2]
    ELSE IF contains(q, <<"L", "i", "m", "i", "t", "e", "d", " ", "d", "a",
                          "t", "a">>)
    THEN [st EXCEPT !.score_B = @ + 3]
    ELSE st

\* Q2: data availability
score_q2(st, q) ==
    IF contains(q,
                 <<"F", "u", "l", "l", " ", "p", "l", "a", "s", "m", "a">>)
    THEN [st EXCEPT
                 !.score_A = @ + 3,
                 !.reasons_A = Append(@,
                     "Full PK profiles enable deconvolution for Level A")]
    ELSE IF contains(q,
                 <<"S", "u", "m", "m", "a", "r", "y", " ", "P", "K">>)
    THEN [st EXCEPT
                 !.score_B = @ + 2,
                 !.score_C = @ + 2,
                 !.reasons_B = Append(@,
                     "Summary parameters are sufficient for Level B (MDT vs MRT)"),
                 !.reasons_C = Append(@,
                     "Summary PK parameters are ideal for Level C correlations"),
                 !.caveats = Append(@,
                     "Without full PK profiles, Level A deconvolution is not feasible")]
    ELSE IF contains(q,
                 <<"L", "i", "m", "i", "t", "e", "d", " ", "d", "a", "t",
                   "a">>)
    THEN [st EXCEPT
                 !.score_C = @ + 3,
                 !.reasons_C = Append(@,
                     "Level C works with minimal data availability"),
                 !.caveats = Append(@,
                     "Limited data restricts analysis to Level C only")]
    ELSE st

\* Q3: number of formulations
score_q3(st, q) ==
    IF contains(q,
                 <<"ge-sign", " ", "3">>)
    THEN [st EXCEPT
                 !.score_A = @ + 2,
                 !.score_C = @ + 1,
                 !.reasons_A = Append(@,
                     ">=3 formulations provide robust validation for Level A")]
    ELSE IF q =
                 <<"2", " ", "f", "o", "r", "m", "u", "l", "a", "t", "i",
                   "o", "n", "s">>
    THEN [st EXCEPT
                 !.score_A = @ + 1,
                 !.score_C = @ + 1,
                 !.caveats = Append(@,
                     "With only 2 formulations: Level A has limited internal validation; Level C gives trivial R2=1.00 (2 points always define a perfect line)")]
    ELSE IF contains(q,
                 <<"1", " ", "f", "o", "r", "m", "u", "l", "a", "t", "i",
                   "o", "n">>)
    THEN [st EXCEPT
                 !.score_A = @ + 1,
                 !.score_C = @ + 1,
                 !.caveats = Append(@,
                     "Single formulation limits validation - external data needed for Level A; Level C requires >=3 formulations for meaningful R2")]
    ELSE st

\* Q4: dosage form; the first test is on q4.lower()
score_q4(st, q) ==
    IF contains(lower(q),
                 <<"o", "r", "a", "l">>)
    THEN [st EXCEPT
                 !.score_A = @ + 2,
                 !.reasons_A = Append(@,
                     "Extended-release oral forms have the most established Level A methodology (FDA 1997 guidance)")]
    ELSE IF contains(q,
                 <<"D", "e", "p", "o", "t">>)
    THEN [st EXCEPT
                 !.score_C = @ + 2,
                 !.score_A = @ + 1,
                 !.reasons_C = Append(@,
                     "Depot injectables often use Level C due to complex absorption mechanisms"),
                 !.caveats = Append(@,
                     "Depot formulations have multi-phasic absorption that complicates Level A deconvolution")]
    ELSE IF contains(q,
                 <<"T", "r", "a", "n", "s", "d", "e", "r", "m", "a", "l">>)
    THEN [st EXCEPT
                 !.score_A = @ + 2,
                 !.reasons_A = Append(@,
                     "Transdermal systems can achieve Level A with appropriate deconvolution")]
    ELSE [st EXCEPT !.score_A = @ + 1, !.score_C = @ + 1]

\* Q5: reference data
score_q5(st, q) ==
    IF contains(q,
                 <<"I", "V", " ", "b", "o", "l", "u", "s">>)
    THEN [st EXCEPT
                 !.score_A = @ + 3,
                 !.reasons_A = Append(@,
                     "IV reference enables numerical deconvolution (most rigorous Level A approach)")]
    ELSE IF contains(q,
                 <<"I", "R", "/", "s", "o", "l", "u", "t", "i", "o", "n">>)
    THEN [st EXCEPT
                 !.score_A = @ + 2,
                 !.reasons_A = Append(@,
                     "Oral IR data enables Wagner-Nelson deconvolution (assumes 1-compartment model)"),
                 !.caveats = Append(@,
                     "Wagner-Nelson assumes 1-compartment PK - verify with appropriate model selection")]
    ELSE IF contains(q,
                 <<"N", "o", " ", "r", "e", "f", "e", "r", "e", "n", "c",
                   "e">>)
    THEN [st EXCEPT
                 !.score_C = @ + 2,
                 !.score_B = @ + 1,
                 !.caveats = Append(@,
                     "Without reference data, deconvolution (Level A) is not feasible"),
                 !.reasons_C = Append(@,
                     "Level C does not require reference data")]
    ELSE st

\* Q6: BCS class
score_q6(st, q) ==
    IF contains(q,
                 <<"C", "l", "a", "s", "s", " ", "I">>)
    THEN [st EXCEPT
                 !.score_C = @ + 1,
                 !.caveats = Append(@,
                     "BCS Class I drugs (high sol/high perm) rarely need IVIVC - dissolution is usually not rate-limiting")]
    ELSE IF contains(q,
                 <<"C", "l", "a", "s", "s", " ", "I", "I">>)
    THEN [st EXCEPT
                 !.score_A = @ + 2,
                 !.reasons_A = Append(@,
                     "BCS Class II is the best candidate for IVIVC (dissolution is rate-limiting for absorption)")]
    ELSE IF contains(q,
                 <<"C", "l", "a", "s", "s", " ", "I", "I", "I">>)
    THEN [st EXCEPT
                 !.score_C = @ + 1,
                 !.caveats = Append(@,
                     "BCS Class III (permeability-limited) makes IVIVC challenging - dissolution may not predict absorption")]
    ELSE IF contains(q,
                 <<"C", "l", "a", "s", "s", " ", "I", "V">>)
    THEN [st EXCEPT
                 !.score_C = @ + 1,
                 !.caveats = Append(@,
                     "BCS Class IV drugs are the most challenging for IVIVC - both dissolution and permeability are limiting")]
    ELSE st

\* the mutant resolves equal scores towards the last key
recommended_last(st) ==
    LET max_score == Max(st.score_A, Max(st.score_B, st.score_C))
    IN  IF st.score_C = max_score THEN "Level C"
        ELSE IF st.score_B = max_score THEN "Level B"
        ELSE "Level A"

\* max(scores, key=scores.get) over {'Level A', 'Level B', 'Level C'}: the
\* first key, in insertion order, that holds the largest score
recommended_of(st) ==
    LET max_score == Max(st.score_A, Max(st.score_B, st.score_C))
    IN  IF st.score_A = max_score THEN "Level A"
        ELSE IF st.score_B = max_score THEN "Level B"
        ELSE "Level C"

\* (max_score / total) * 100 if total > 0 else 33, and its label
confidence_of(st) ==
    LET max_score == Max(st.score_A, Max(st.score_B, st.score_C))
        total     == st.score_A + st.score_B + st.score_C
        pct       == IF total > 0
                     THEN RMul(RDiv(R(max_score), R(total)), R(100))
                     ELSE R(33)
    IN  [confidence_pct |-> pct,
         confidence     |-> IF RLe(R(55), pct) THEN "Strong"
                            ELSE IF RLe(R(40), pct) THEN "Moderate"
                            ELSE "Weak"]

\* the handler of the recommendation button
level_selector(q1, q2, q3, q4, q5, q6) ==
    IF None \in {q1, q2, q3, q4, q5, q6}
    THEN [warning |-> "Please answer all 6 questions"]
    ELSE LET st == score_q6(score_q5(score_q4(score_q3(score_q2(
                       score_q1(scores_init, q1), q2), q3), q4), q5), q6)
         IN  [warning        |-> "",
              scores         |-> st,
              max_score      |-> Max(st.score_A, Max(st.score_B, st.score_C)),
              recommended    |-> recommended_of(st),
              confidence_pct |-> confidence_of(st).confidence_pct,
              confidence     |-> confidence_of(st).confidence]

(***************************************************************************)
(* src/utils/synthetic_data.py: the body of the loop of                    *)
(* generate_level_a_data, computed for one formulation                     *)
(*                                                                         *)
(* The exponentials of the plasma model are rounded to one decimal:        *)
(* exp(-0) is exactly 1, exp(-0.1) = 0.9, exp(-0.45) = 0.6, exp(-0.9) =    *)
(* 0.4, exp(-0.05) = 1.0, exp(-0.25) = 0.8, exp(-0.8) = 0.4, exp(-2) =     *)
(* 0.1; the curve of the model is the geometric curve through them.        *)
(***************************************************************************)
\* np.exp(-x) to one decimal for the rate constants of the scenario
exp_1dp(x) ==
    CASE x = <<0, 1>>  -> R(1)
      [] x = <<1, 10>> -> <<9, 10>>
      [] x = <<9, 20>> -> <<3, 5>>
      [] x = <<9, 10>> -> <<2, 5>>
      [] x = <<1, 20>> -> R(1)
      [] x = <<1, 4>>  -> <<4, 5>>
      [] x = <<4, 5>>  -> <<2, 5>>
      [] x = <<2, 1>>  -> <<1, 10>>

\* |coeff| of one_compartment_oral: (dose * ka) / (vd * (ka - ke)), or
\* (dose / vd) * ka in the limiting case
oral_scale(dose, ka, ke, vd) ==
    IF ka = ke THEN RMul(RDiv(dose, vd), ka)
    ELSE RDiv(RMul(dose, ka), RMul(vd, RAbs(RSub(ka, ke))))

\* float(_trapz(conc, times))
compute_auc(times, conc) == _trapz(conc, times)

\* float(_trapz(times * conc, times))
compute_aumc(times, conc) ==
    _trapz([i \in 1..Len(times) |-> RMul(times[i], conc[i])], times)

\* the mutant divides whatever the area is
compute_mrt_unguarded(times, conc) ==
    RDiv(compute_aumc(times, conc), compute_auc(times, conc))

\* aumc / auc, 0.0 if auc == 0
compute_mrt(times, conc) ==
    IF compute_auc(times, conc) = R(0) THEN R(0)
    ELSE RDiv(compute_aumc(times, conc), compute_auc(times, conc))

\* np.argmax: the first index of the largest value
argmax(s) == CHOOSE i \in 1..Len(s) :
                 /\ s[i] = RMaxOf(s)
                 /\ \A j \in 1..(i - 1) : s[j] # RMaxOf(s)

\* everything the loop stores for one formulation, diss being the array
\* first_order_release returned for it
formulation(times_diss, times_pk, k, diss) ==
    LET ka == RMul(k, <<3, 2>>)
        pk == one_compartment_oral(times_pk,
                                   oral_scale(dose_a, ka, ke_a, vd_a),
                                   exp_1dp(ke_a), exp_1dp(ka))
        wn == wagner_nelson_floats(asarray(times_pk), pk, ke_a)
    IN  [dissolution_profile |-> diss,
         pk_profile          |-> pk,
         fraction_absorbed   |-> wn,
         pk_params           |->
             [Cmax |-> RMaxOf(pk),
              Tmax |-> R(times_pk[argmax(pk)]),
              AUC  |-> compute_auc(asarray(times_pk), pk),
              MRT  |-> compute_mrt(asarray(times_pk), pk)],
         dissolution_params  |->
             [MDT |-> compute_mdt_floats(asarray(times_diss), diss),
              DE  |-> compute_de_floats(asarray(times_diss), diss),
              t50 |-> t50_of(k),
              k   |-> k]]

(***************************************************************************)
(* src/utils/deconvolution.py: wagner_nelson in binary floating point      *)
(*                                                                         *)
(* dtype=float is IEEE binary64: every operation returns the exact result  *)
(* rounded to the nearest value with a 53-bit significand, ties to even.   *)
(* The model keeps the rounding after every operation and shortens the     *)
(* significand to Precision bits; the exponent is not bounded (no          *)
(* overflow, no subnormal values).                                         *)
(***************************************************************************)
RECURSIVE Pow2(_)
Pow2(n) == IF n = 0 THEN 1 ELSE 2 * Pow2(n - 1)

\* a * 2^(-e) brought into [2^(Precision-1), 2^Precision), with e
RECURSIVE float_scale(_, _)
float_scale(a, e) ==
    IF a[1] \div a[2] >= Pow2(Precision) THEN float_scale(RDiv(a, R(2)), e + 1)
    ELSE IF a[1] \div a[2] < Pow2(Precision - 1)
         THEN float_scale(RMul(a, R(2)), e - 1)
         ELSE <<a, e>>

\* the significand m and the scaled value a give the rounded significand
float_significand(a, m) ==
    IF RGt(RSub(a, R(m)), <<1, 2>>) \/ (RSub(a, R(m)) = <<1, 2>> /\ m % 2 = 1)
    THEN m + 1
    ELSE m

\* sig * 2^e
float_value(sig, e) == IF e >= 0 THEN R(sig * Pow2(e)) ELSE Norm(sig, Pow2(-e))

\* the floating-point value nearest to the scaled magnitude s = <<a, e>>
float_magnitude(s) ==
    float_value(float_significand(s[1], s[1][1] \div s[1][2]), s[2])

\* mag with the sign of q
float_signed(q, mag) == IF q[1] < 0 THEN <<-mag[1], mag[2]>> ELSE mag

\* the nearest floating-point value, ties to the even significand
float_round(q) ==
    IF IsNaN(q) \/ q[1] = 0 THEN q
    ELSE float_signed(q, float_magnitude(float_scale(RAbs(q), 0)))

\* auc_cumulative[i - 1] + 0.5 * (conc[i - 1] + conc[i]) * (times[i] - times[i - 1])
RECURSIVE auc_cumulative_float(_, _, _)
auc_cumulative_float(times, conc, i) ==
    IF i = 1 THEN R(0)
    ELSE LET half == float_round(RMul(<<1, 2>>,
                         float_round(RAdd(conc[i - 1], conc[i]))))
             step == float_round(RSub(times[i], times[i - 1]))
         IN  float_round(RAdd(auc_cumulative_float(times, conc, i - 1),
                              float_round(RMul(half, step))))

\* the mutant leaves the concentration out of the amount
amount_absorbed_float_auc_only(conc, ke, auc) ==
    [i \in 1..Len(conc) |-> float_round(RMul(ke, auc[i]))]

\* conc + ke * auc_cumulative
amount_absorbed_float(conc, ke, auc) ==
    [i \in 1..Len(conc) |->
        float_round(RAdd(conc[i], float_round(RMul(ke, auc[i]))))]

wagner_nelson_float(times_in, conc_in, ke) ==
    LET times  == asarray(times_in)
        conc   == asarray(conc_in)
        n      == Len(times)
        auc    == [i \in 1..n |-> auc_cumulative_float(times, conc, i)]
        total  == IF RGt(ke, R(0))
                  THEN float_round(RAdd(auc[n], float_round(RDiv(conc[n], ke))))
                  ELSE auc[n]
        amount == amount_absorbed_float(conc, ke, auc)
        denom  == float_round(RMul(ke, total))
        raw    == IF RGt(denom, R(0))
                  THEN [i \in 1..n |-> float_round(RDiv(amount[i], denom))]
                  ELSE [i \in 1..n |-> R(0)]
    IN  [times             |-> times,
         fraction_absorbed |-> [i \in 1..n |-> clip(raw[i], R(0), R(1))],
         auc_cumulative    |-> auc,
         auc_total         |-> total,
         amount_absorbed   |-> amount]

(***************************************************************************)
(* src/utils/pk_models.py: convolve_dissolution_pk and                     *)
(* src/utils/deconvolution.py: numerical_deconvolution, both in binary     *)
(* floating point: the arrays hold floating-point values and every         *)
(* operation is rounded.  np.convolve adds its products in index order.    *)
(***************************************************************************)
fadd(a, b) == float_round(RAdd(a, b))
fsub(a, b) == float_round(RSub(a, b))
fmul(a, b) == float_round(RMul(a, b))
fdiv(a, b) == float_round(RDiv(a, b))

\* the sum of a[j] * v[k - j] over the j from lo to hi
RECURSIVE convolve_sum_float(_, _, _, _, _)
convolve_sum_float(a, v, k, lo, hi) ==
    IF hi < lo THEN R(0)
    ELSE fadd(convolve_sum_float(a, v, k, lo, hi - 1),
              fmul(a[hi], v[k - hi + 1]))

\* the mutant leaves the time step out of the convolution
scale_by_nothing(x, dt) == x

\* np.convolve(...) * dt, one element
scale_by_dt(x, dt) == fmul(x, dt)

\* np.convolve(dissolution_rate, impulse_resp) * dt, cut to len(times)
convolve_dissolution_pk_float(times, dissolution_rate, impulse_resp) ==
    LET dt   == IF Len(times) > 1 THEN fsub(times[2], times[1]) ELSE R(1)
        a    == dissolution_rate
        v    == impulse_resp
        full == [k \in 1..(Len(a) + Len(v) - 1) |->
                    convolve_sum_float(a, v, k, Max(1, k - Len(v) + 1),
                                       Min(k, Len(a)))]
        conv == [k \in 1..Len(full) |-> scale_by_dt(full[k], dt)]
    IN  SubSeq(conv, 1, Min(Len(times), Len(conv)))

\* sum_prev += r[j] * h[i - j] * (times[min(j + 1, n - 1)] - times[j])
RECURSIVE sum_prev_float(_, _, _, _, _)
sum_prev_float(r, h, times, i, j) ==
    IF j = 0 THEN R(0)
    ELSE fadd(sum_prev_float(r, h, times, i, j - 1),
              fmul(fmul(r[j], h[i - j + 1]),
                   fsub(times[Min(j + 1, Len(times))], times[j])))

rate_step_float(times, conc, h, dt, r, i) ==
    IF RGt(h[1], R(0)) /\ i > 1
    THEN LET step == fsub(times[i], times[i - 1])
         IN  IF RGt(step, R(0))
             THEN fdiv(fsub(conc[i], sum_prev_float(r, h, times, i, i - 1)),
                       fmul(h[1], step))
             ELSE R(0)
    ELSE IF i = 1 /\ RGt(h[1], R(0))
         THEN fdiv(conc[1], fmul(h[1], dt))
         ELSE R(0)

RECURSIVE rate_loop_float(_, _, _, _, _)
rate_loop_float(times, conc, h, dt, i) ==
    IF i = 0 THEN <<>>
    ELSE LET r == rate_loop_float(times, conc, h, dt, i - 1)
         IN  Append(r, rate_step_float(times, conc, h, dt, r, i))

RECURSIVE fa_cumulative_float(_, _, _)
fa_cumulative_float(times, r, i) ==
    IF i = 1 THEN R(0)
    ELSE fadd(fa_cumulative_float(times, r, i - 1),
              fmul(fmul(<<1, 2>>, fadd(r[i - 1], r[i])),
                   fsub(times[i], times[i - 1])))

\* a non-empty series of floating-point values
numerical_deconvolution_float(times, conc, h, dt) ==
    LET n   == Len(times)
        raw == rate_loop_float(times, conc, h, dt, n)
        r   == [i \in 1..n |-> maximum(raw[i], R(0))]
        fa  == [i \in 1..n |-> fa_cumulative_float(times, r, i)]
    IN  [times             |-> times,
         input_rate        |-> r,
         fraction_absorbed |->
             IF RGt(fa[n], R(0)) THEN [i \in 1..n |-> fdiv(fa[i], fa[n])]
             ELSE fa]

(***************************************************************************)
(* src/utils/synthetic_data.py: generate_level_b_data, the pathological    *)
(* pair.  times_path is sampled at whole hours.                            *)
(***************************************************************************)
times_path == <<0, 1, 2, 3>>

\* p1_release and p2_release with their mean dissolution times
pathological_dissolution(p1_burst_frac, p1_burst_k, p2_k) ==
    LET p1_slow_frac == RSub(R(100), p1_burst_frac)
        p1_release ==
            [i \in 1..Len(times_path) |->
                RMin(RAdd(release_at(p1_burst_frac,
                                     RPow(exp_1dp(p1_burst_k), times_path[i])),
                          release_at(p1_slow_frac,
                                     RPow(exp_1dp(<<1, 20>>), times_path[i]))),
                     R(100))]
        p2_release ==
            [i \in 1..Len(times_path) |->
                release_at(R(100), RPow(exp_1dp(p2_k), times_path[i]))]
    IN  [P1_dissolution |-> p1_release,
         P2_dissolution |-> p2_release,
         MDT_P1 |-> compute_mdt_floats(asarray(times_path), p1_release),
         MDT_P2 |-> compute_mdt_floats(asarray(times_path), p2_release)]

\* the plasma curves of the pair for absorption rates ka1 and ka2, with
\* their mean residence times
pathological_pk(ka1, ka2) ==
    LET p1_pk == one_compartment_oral(times_path,
                                      oral_scale(dose_a, ka1, ke_a, vd_a),
                                      exp_1dp(ke_a), exp_1dp(ka1))
        p2_pk == one_compartment_oral(times_path,
                                      oral_scale(dose_a, ka2, ke_a, vd_a),
                                      exp_1dp(ke_a), exp_1dp(ka2))
    IN  [P1_pk  |-> p1_pk,
         P2_pk  |-> p2_pk,
         MRT_P1 |-> compute_mrt(asarray(times_path), p1_pk),
         MRT_P2 |-> compute_mrt(asarray(times_path), p2_pk)]

\* data['pathological']
pathological_bundle(diss, pk) ==
    [times          |-> asarray(times_path),
     P1_dissolution |-> diss.P1_dissolution,
     P2_dissolution |-> diss.P2_dissolution,
     P1_pk          |-> pk.P1_pk,
     P2_pk          |-> pk.P2_pk,
     MDT_P1         |-> diss.MDT_P1,
     MDT_P2         |-> diss.MDT_P2,
     MRT_P1         |-> pk.MRT_P1,
     MRT_P2         |-> pk.MRT_P2]

\* the mutant absorbs at the rates of dissolution
generate_level_b_data_coupled(p1_burst_frac, p1_burst_k, p2_k) ==
    pathological_bundle(
        pathological_dissolution(p1_burst_frac, p1_burst_k, p2_k),
        pathological_pk(p1_burst_k, p2_k))

\* ka=0.8 and ka=0.25 are written in the code
generate_level_b_data(p1_burst_frac, p1_burst_k, p2_k) ==
    pathological_bundle(
        pathological_dissolution(p1_burst_frac, p1_burst_k, p2_k),
        pathological_pk(<<4, 5>>, <<1, 4>>))

(***************************************************************************)
(* src/utils/dissolution_models.py: compute_mdt in binary floating point.  *)
(* np.sum adds the few elements of these arrays in index order.            *)
(***************************************************************************)
RECURSIVE sum_float(_, _)
sum_float(s, n) == IF n = 0 THEN R(0) ELSE fadd(sum_float(s, n - 1), s[n])

\* the mutant weights each interval by its right end
t_mid_float_right(times) == [i \in 1..(Len(times) - 1) |-> times[i + 1]]

\* (times[:-1] + times[1:]) / 2.0
t_mid_float(times) ==
    [i \in 1..(Len(times) - 1) |-> fdiv(fadd(times[i], times[i + 1]), R(2))]

compute_mdt_float(times_in, release_in) ==
    LET times   == asarray(times_in)
        release == asarray(release_in)
        delta_f == [i \in 1..(Len(release) - 1) |->
                       fsub(release[i + 1], release[i])]
        mid     == t_mid_float(times)
        total   == sum_float(delta_f, Len(delta_f))
        moments == [i \in 1..Len(delta_f) |-> fmul(mid[i], delta_f[i])]
    IN  IF total = R(0) THEN R(0)
        ELSE fdiv(sum_float(moments, Len(moments)), total)

(***************************************************************************)
(* src/utils/dissolution_models.py: compute_f1_f2 in binary floating       *)
(* point.  np.sqrt is correctly rounded; np.log10 is increasing and        *)
(* log10(10.0) is exactly 1.0, so f2 = 50.0 * log10(q) is 50 for q = 10,   *)
(* and is kept as the term <<"50*log10", num, den>> for the other q.     *)
(***************************************************************************)
\* x / 4^e brought into [4^(Precision-1), 4^Precision), with e
RECURSIVE sqrt_scale(_, _)
sqrt_scale(x, e) ==
    IF x[1] \div x[2] >= Pow2(2 * Precision) THEN sqrt_scale(RDiv(x, R(4)), e + 1)
    ELSE IF x[1] \div x[2] < Pow2(2 * Precision - 2)
         THEN sqrt_scale(RMul(x, R(4)), e - 1)
         ELSE <<x, e>>

\* np.sqrt of a positive floating-point value: the nearest value to the root
float_sqrt(x) ==
    LET s   == sqrt_scale(x, 0)
        m   == CHOOSE k \in Pow2(Precision - 1)..(Pow2(Precision) - 1) :
                   /\ RLe(R(k * k), s[1])
                   /\ RLt(s[1], R((k + 1) * (k + 1)))
        up  == RLt(Norm(4 * m * m + 4 * m + 1, 4), s[1])
        sig == IF up THEN m + 1 ELSE m
    IN  IF s[2] >= 0 THEN R(sig * Pow2(s[2])) ELSE Norm(sig, Pow2(-s[2]))

\* the mutant takes the logarithm of the quotient by the variance itself
similarity_quotient_no_root(arg) == fdiv(R(100), arg)

\* 100.0 / np.sqrt(1.0 + mean_sq_diff)
similarity_quotient(arg) == fdiv(R(100), float_sqrt(arg))

\* 50.0 * np.log10(q)
f2_float(q) == IF q = R(10) THEN R(50) ELSE <<"50*log10", q[1], q[2]>>

\* f2 >= 50 on the value f2_float returned
f2_similar(f2) == IF Len(f2) = 3 THEN RLe(R(10), <<f2[2], f2[3]>>) ELSE RLe(R(50), f2)

\* ref and test hold floating-point values
compute_f1_f2_float(ref, test) ==
    LET n            == Len(ref)
        adiff        == [i \in 1..n |-> RAbs(fsub(ref[i], test[i]))]
        squares      == [i \in 1..n |->
                            fmul(fsub(ref[i], test[i]), fsub(ref[i], test[i]))]
        mean_sq_diff == fdiv(sum_float(squares, n), R(n))
        sum_ref      == sum_float(ref, n)
    IN  [f1 |-> IF RGt(sum_ref, R(0))
                THEN fmul(fdiv(sum_float(adiff, n), sum_ref), R(100))
                ELSE R(0),
         f2 |-> f2_float(similarity_quotient(fadd(R(1), mean_sq_diff)))]

(***************************************************************************)
(* Inputs.                                                                 *)
(***************************************************************************)
\* strictly increasing, non-negative sample times, n of them
TimeGrids(n) ==
    {s \in [1..n -> 0..MaxT] : \A i \in 1..(n - 1) : s[i] < s[i + 1]}

Kes == {Norm(k, 2) : k \in -2..MaxKe2}

\* a concentration series of 1..maxlen samples and an elimination rate
WNInputs(maxlen) ==
    UNION {{[times |-> t, conc |-> c, ke |-> k] :
               t \in TimeGrids(n), c \in [1..n -> -MaxC..MaxC], k \in Kes} :
           n \in 1..maxlen}

\* per-formulation arrays of fractions and lists of them, one array per
\* formulation; the two lists and the two arrays of a formulation may differ
\* in length
ArraysA(maxlen) == UNION {[1..n -> {0, 1}] : n \in 0..maxlen}

ListsA(maxlen) == UNION {[1..k -> ArraysA(maxlen)] : k \in 0..2}

LevelAInputs(maxlen) ==
    {[dissolved_fractions |-> d, absorbed_fractions |-> a] :
        d \in ListsA(maxlen), a \in ListsA(maxlen)}

\* one value per formulation of an in vitro and an in vivo parameter
LevelCInputs(maxlen) ==
    UNION {{[in_vitro_values |-> x, in_vivo_values |-> y] :
               x \in [1..n -> 0..MaxVC], y \in [1..n -> 0..MaxVC]} :
           n \in 0..maxlen}

\* observed values 0 and +-20, and predictions around 20 in steps of 5 percent
PEObserved == {0, 20, -20}

PEPredicted == {0, -20} \cup {20 + d : d \in -MaxDev..MaxDev}

PEInputs(maxlen) ==
    UNION {{[predicted |-> p, observed |-> o] :
               p \in [1..n -> PEPredicted], o \in [1..n -> PEObserved]} :
           n \in 0..maxlen}

F1F2Inputs(maxlen) ==
    UNION {{[ref_profile |-> r, test_profile |-> t] :
               r \in [1..n -> 0..MaxRel], t \in [1..n -> 0..MaxRel]} :
           n \in 1..maxlen}

ProfileInputs(maxlen) ==
    UNION {{[times |-> t, release |-> r] :
               t \in TimeGrids(n), r \in [1..n -> 0..MaxRel]} :
           n \in 1..maxlen}

\* the values of one named parameter, one per formulation
ParamValues(n) == [1..n -> {0, 1}]

\* the ordered in vitro and in vivo names to tabulate
MatrixNames ==
    {<<<<>>, <<"MRT">>>>, <<<<"MDT">>, <<"AUC", "MRT">>>>,
     <<<<"DE", "MDT">>, <<"MRT">>>>, <<<<"MDT", "DE">>, <<"MRT", "AUC">>>>}

\* the time step of numerical_deconvolution: its default 0.1, and 1
Dts == {<<1, 10>>, R(1)}

\* n evenly spaced sample times
EvenGrids(n) ==
    {[i \in 1..n |-> t0 + (i - 1) * step] : t0 \in {0, 1}, step \in {1, 2}}

\* a rate signal and an impulse response sampled on one evenly spaced grid
ConvInputs(maxlen) ==
    UNION {{[times |-> t, dissolution_rate |-> r, impulse_resp |-> h] :
               t \in EvenGrids(n), r \in [1..n -> {0, 1, 2}],
               h \in [1..n -> {-1, 0, 1}]} :
           n \in 0..maxlen}

\* dissolution rate constants: none, the slow and the fast default
RateConstants == {R(0), <<2, 25>>, <<3, 10>>}

\* elimination: u = exp(-ke) with rational values just below and just above
\* ke = -ln(u)   (ln 2 = 0.6931..., ln 4 = 1.3862...)
Eliminations ==
    {[u |-> <<1, 2>>, ke |-> <<9, 13>>], [u |-> <<1, 2>>, ke |-> <<7, 10>>],
     [u |-> <<1, 4>>, ke |-> <<18, 13>>], [u |-> <<1, 4>>, ke |-> <<7, 5>>]}

\* absorption: v = exp(-ka), faster than, equal to and slower than elimination
Absorptions == {<<1, 8>>, <<1, 4>>, <<1, 2>>}

\* strictly increasing sampling hours, n of them
HourGrids(n) ==
    {s \in [1..n -> 0..MaxHour] : \A i \in 1..(n - 1) : s[i] < s[i + 1]}

\* the plasma curve of a one-compartment oral dose sampled at 2..maxlen
\* times, with the elimination rate it was generated with
OralInputs(maxlen) ==
    UNION {{[times |-> t, scale |-> s, u |-> e.u, v |-> v, ke |-> e.ke] :
               t \in HourGrids(n), s \in {R(1), R(2)}, e \in Eliminations,
               v \in Absorptions} :
           n \in 2..maxlen}

\* the sampling times of the first-order scenario
ScenarioTimes == <<0, 1, 2, 4, 8, 24>>

\* the scenario grid and the grids that leave some of its samples out
ScenarioGrids(times) ==
    {g \in UNION {[1..n -> {times[i] : i \in 1..Len(times)}] :
                     n \in 1..Len(times)} :
        \A i \in 1..(Len(g) - 1) : g[i] < g[i + 1]}

\* no release, the rate constant of the scenario and twice that
ScenarioRates == {R(0), <<3, 10>>, <<3, 5>>}

\* the answers a radio group can hold: one of its options or none
Answers(options) == {options[i] : i \in 1..Len(options)} \cup {None}

\* plasma sampling grids made of the first whole hours of times_pk
PkGrids == {<<0, 1, 2>>, <<0, 2, 4>>, <<0, 1, 2, 3>>, <<0, 1, 2, 3, 4>>}

\* elimination rates that are floating-point values: eighths
FloatKes == {<<-1, 8>>, R(0), <<3, 8>>, <<5, 8>>}

\* grid steps that are floating-point values: two powers of two and the
\* values nearest to 0.1 and 0.3
FloatSteps == {<<1, 2>>, R(1), <<205, 2048>>, <<77, 256>>}

\* the floating-point grid 0, d, 2d, ... of n points
FloatGrid(d, n) == [i \in 1..n |-> float_round(RMul(R(i - 1), d))]

\* slider settings of the pathological pair
LevelBInputs ==
    [p1_burst_frac : {R(20), R(40), R(60)}, p1_burst_k : {<<9, 10>>, R(2)},
     p2_k : {<<1, 10>>, <<9, 20>>}]

\* cumulative percentages released, with significands of 1, 6 and 7 bits
FloatReleases == {0, 37, 99}

\* percentages released around a deviation of sqrt(99) = 9.9498...
FloatPercents == {R(0), R(9), <<159, 16>>, R(10), <<161, 16>>, R(20)}

NoRet == [pending |-> TRUE]

(***************************************************************************)
(* Calls.                                                                  *)
(***************************************************************************)
InitWN ==
    /\ pc = "call"
    /\ op = "wagner_nelson"
    /\ args \in WNInputs(MaxLenWN)
    /\ ret = NoRet

call_wagner_nelson ==
    /\ pc = "call"
    /\ op = "wagner_nelson"
    /\ ret' = wagner_nelson(args.times, args.conc, args.ke)
    /\ pc' = "done"
    /\ UNCHANGED <<op, args>>

NextWN == call_wagner_nelson

SpecWN == InitWN /\ [][NextWN]_vars

DoneWN == pc = "done" /\ op = "wagner_nelson"

InitReg ==
    /\ pc = "call"
    /\ \/ op = "level_a_correlation" /\ args \in LevelAInputs(MaxLenA)
       \/ op = "level_c_correlation" /\ args \in LevelCInputs(MaxLenC)
    /\ ret = NoRet

call_level_a_correlation ==
    /\ pc = "call"
    /\ op = "level_a_correlation"
    /\ ret' = level_a_correlation(args.dissolved_fractions,
                                  args.absorbed_fractions)
    /\ pc' = "done"
    /\ UNCHANGED <<op, args>>

call_level_c_correlation ==
    /\ pc = "call"
    /\ op = "level_c_correlation"
    /\ ret' = level_c_correlation(args.in_vitro_values, args.in_vivo_values)
    /\ pc' = "done"
    /\ UNCHANGED <<op, args>>

NextReg == call_level_a_correlation \/ call_level_c_correlation

SpecReg == InitReg /\ [][NextReg]_vars

DoneA == pc = "done" /\ op = "level_a_correlation"
DoneC == pc = "done" /\ op = "level_c_correlation"

InitPE ==
    /\ pc = "call"
    /\ op = "compute_prediction_error"
    /\ args \in PEInputs(MaxLenPE)
    /\ ret = NoRet

call_compute_prediction_error ==
    /\ pc = "call"
    /\ op = "compute_prediction_error"
    /\ ret' = compute_prediction_error(args.predicted, args.observed)
    /\ pc' = "done"
    /\ UNCHANGED <<op, args>>

NextPE == call_compute_prediction_error

SpecPE == InitPE /\ [][NextPE]_vars

DonePE == pc = "done" /\ op = "compute_prediction_error"

InitDiss ==
    /\ pc = "call"
    /\ \/ op = "compute_f1_f2" /\ args \in F1F2Inputs(MaxLenF)
       \/ op = "compute_mdt" /\ args \in ProfileInputs(MaxLenD)
       \/ op = "compute_de" /\ args \in ProfileInputs(MaxLenD)
    /\ ret = NoRet

call_compute_f1_f2 ==
    /\ pc = "call"
    /\ op = "compute_f1_f2"
    /\ ret' = compute_f1_f2(args.ref_profile, args.test_profile)
    /\ pc' = "done"
    /\ UNCHANGED <<op, args>>

call_compute_mdt ==
    /\ pc = "call"
    /\ op = "compute_mdt"
    /\ ret' = compute_mdt(args.times, args.release)
    /\ pc' = "done"
    /\ UNCHANGED <<op, args>>

call_compute_de ==
    /\ pc = "call"
    /\ op = "compute_de"
    /\ ret' = compute_de(args.times, args.release)
    /\ pc' = "done"
    /\ UNCHANGED <<op, args>>

NextDiss == call_compute_f1_f2 \/ call_compute_mdt \/ call_compute_de

SpecDiss == InitDiss /\ [][NextDiss]_vars

DoneF1F2 == pc = "done" /\ op = "compute_f1_f2"
DoneMDT == pc = "done" /\ op = "compute_mdt"
DoneDE == pc = "done" /\ op = "compute_de"

InitMat ==
    /\ pc = "call"
    /\ op = "build_correlation_matrix"
    /\ \E n \in 0..NForm :
       \E ivp \in [{"MDT", "DE"} -> ParamValues(n)] :
       \E vvp \in [{"AUC", "MRT"} -> ParamValues(n)] :
       \E names \in MatrixNames :
          args = [in_vitro_params |-> ivp, in_vivo_params |-> vvp,
                  iv_names |-> names[1], vivo_names |-> names[2]]
    /\ ret = NoRet

call_build_correlation_matrix ==
    /\ pc = "call"
    /\ op = "build_correlation_matrix"
    /\ ret' = build_correlation_matrix(args.in_vitro_params,
                                       args.in_vivo_params,
                                       args.iv_names, args.vivo_names)
    /\ pc' = "done"
    /\ UNCHANGED <<op, args>>

NextMat == call_build_correlation_matrix

SpecMat == InitMat /\ [][NextMat]_vars

DoneMat == pc = "done" /\ op = "build_correlation_matrix"

InitND ==
    /\ pc = "call"
    /\ op = "numerical_deconvolution"
    /\ \E n \in 0..MaxLenND :
           \E t \in TimeGrids(n), c \in [1..n -> {0, 1, 2}] :
               \E h \in [1..n -> {-1, 0, 1}], d \in Dts :
                   args = [times |-> t, conc |-> c,
                           impulse_response |-> h, dt |-> d]
    /\ ret = NoRet

call_numerical_deconvolution ==
    /\ pc = "call"
    /\ op = "numerical_deconvolution"
    /\ ret' = numerical_deconvolution(args.times, args.conc,
                                      args.impulse_response, args.dt)
    /\ pc' = "done"
    /\ UNCHANGED <<op, args>>

NextND == call_numerical_deconvolution

SpecND == InitND /\ [][NextND]_vars

DoneND == pc = "done" /\ op = "numerical_deconvolution"

InitConv ==
    /\ pc = "call"
    /\ op = "convolve_dissolution_pk"
    /\ args \in ConvInputs(MaxLenCv)
    /\ ret = NoRet

call_convolve_dissolution_pk ==
    /\ pc = "call"
    /\ op = "convolve_dissolution_pk"
    /\ ret' = convolve_dissolution_pk(args.times, args.dissolution_rate,
                                      args.impulse_resp)
    /\ pc' = "done"
    /\ UNCHANGED <<op, args>>

NextConv == call_convolve_dissolution_pk

SpecConv == InitConv /\ [][NextConv]_vars

DoneConv == pc = "done" /\ op = "convolve_dissolution_pk"

InitGenA ==
    /\ pc = "call"
    /\ op = "generate_level_a_data"
    /\ \E kf \in RateConstants, km \in RateConstants, ks \in RateConstants :
          args = [k_fast |-> kf, k_medium |-> km, k_slow |-> ks]
    /\ ret = NoRet

\* the statements before the loop
enter_generate_level_a_data ==
    /\ pc = "call"
    /\ op = "generate_level_a_data"
    /\ ret' = before_loop(args.k_fast, args.k_medium, args.k_slow)
    /\ pc' = "loop"
    /\ UNCHANGED <<op, args>>

\* one group of statements of the body of one formulation; the bodies of the
\* formulations run in any order and interleaving
formulation_step ==
    /\ pc = "loop"
    /\ op = "generate_level_a_data"
    /\ \E name \in Names :
          /\ ret.at[name] < BodySteps
          /\ ret' = body_step(ret, name)
    /\ UNCHANGED <<op, args, pc>>

\* the statements after the loop
return_generate_level_a_data ==
    /\ pc = "loop"
    /\ op = "generate_level_a_data"
    /\ \A name \in Names : ret.at[name] = BodySteps
    /\ ret' = bundle(ret)
    /\ pc' = "done"
    /\ UNCHANGED <<op, args>>

NextGenA ==
    \/ enter_generate_level_a_data
    \/ formulation_step
    \/ return_generate_level_a_data

SpecGenA == InitGenA /\ [][NextGenA]_vars

DoneGenA == pc = "done" /\ op = "generate_level_a_data"

InitOral ==
    /\ pc = "call"
    /\ op = "wagner_nelson(one_compartment_oral)"
    /\ args \in OralInputs(MaxLenWN + 1)
    /\ ret = NoRet

\* pk = one_compartment_oral(times_pk, dose, ka, ke, vd);
\* wn = wagner_nelson(times_pk, pk, ke)
call_wagner_nelson_oral ==
    /\ pc = "call"
    /\ op = "wagner_nelson(one_compartment_oral)"
    /\ LET pk == one_compartment_oral(args.times, args.scale, args.u, args.v)
       IN  ret' = [pk |-> pk,
                   wn |-> wagner_nelson_floats(asarray(args.times), pk,
                                               args.ke)]
    /\ pc' = "done"
    /\ UNCHANGED <<op, args>>

NextOral == call_wagner_nelson_oral

SpecOral == InitOral /\ [][NextOral]_vars

DoneOral == pc = "done" /\ op = "wagner_nelson(one_compartment_oral)"

InitFirstOrder ==
    /\ pc = "call"
    /\ op = "compute_mdt(first_order_release)"
    /\ \E t \in ScenarioGrids(ScenarioTimes), k \in ScenarioRates :
          args = [times |-> t, k |-> k, f_max |-> R(100)]
    /\ ret = NoRet

\* diss = first_order_release(times_diss, k, f_max=100.0);
\* mdt = compute_mdt(times_diss, diss)
call_compute_mdt_first_order ==
    /\ pc = "call"
    /\ op = "compute_mdt(first_order_release)"
    /\ \E diss \in first_order_release(args.times, args.k, args.f_max) :
          ret' = [diss |-> diss,
                  mdt  |-> compute_mdt_floats(asarray(args.times), diss)]
    /\ pc' = "done"
    /\ UNCHANGED <<op, args>>

NextFirstOrder == call_compute_mdt_first_order

SpecFirstOrder == InitFirstOrder /\ [][NextFirstOrder]_vars

DoneFirstOrder == pc = "done" /\ op = "compute_mdt(first_order_release)"

InitSel ==
    /\ pc = "call"
    /\ op = "level_selector"
    /\ \E q1 \in Answers(Q1Options), q2 \in Answers(Q2Options),
          q3 \in Answers(Q3Options), q4 \in Answers(Q4Options),
          q5 \in Answers(Q5Options), q6 \in Answers(Q6Options) :
          args = [q1 |-> q1, q2 |-> q2, q3 |-> q3, q4 |-> q4, q5 |-> q5,
                  q6 |-> q6]
    /\ ret = NoRet

\* the recommendation button is pressed
call_level_selector ==
    /\ pc = "call"
    /\ op = "level_selector"
    /\ ret' = level_selector(args.q1, args.q2, args.q3, args.q4, args.q5,
                             args.q6)
    /\ pc' = "done"
    /\ UNCHANGED <<op, args>>

NextSel == call_level_selector

SpecSel == InitSel /\ [][NextSel]_vars

DoneSel == pc = "done" /\ op = "level_selector"

InitFormulation ==
    /\ pc = "call"
    /\ op = "generate_level_a_data: formulation"
    /\ \E td \in ScenarioGrids(ScenarioTimes), tp \in PkGrids :
          \E k \in ScenarioRates :
              /\ Len(td) >= 2
              /\ args = [times_diss |-> td, times_pk |-> tp, k |-> k]
    /\ ret = NoRet

\* one pass of the loop over formulation_names
call_formulation ==
    /\ pc = "call"
    /\ op = "generate_level_a_data: formulation"
    /\ \E diss \in first_order_release(args.times_diss, args.k, R(100)) :
          ret' = formulation(args.times_diss, args.times_pk, args.k, diss)
    /\ pc' = "done"
    /\ UNCHANGED <<op, args>>

NextFormulation == call_formulation

SpecFormulation == InitFormulation /\ [][NextFormulation]_vars

DoneFormulation == pc = "done" /\ op = "generate_level_a_data: formulation"

InitWNFloat ==
    /\ pc = "call"
    /\ op = "wagner_nelson: float"
    /\ \E n \in 1..MaxLenWN :
           \E t \in TimeGrids(n), c \in [1..n -> -1..2], k \in FloatKes :
               args = [times |-> t, conc |-> c, ke |-> k]
    /\ ret = NoRet

call_wagner_nelson_float ==
    /\ pc = "call"
    /\ op = "wagner_nelson: float"
    /\ ret' = wagner_nelson_float(args.times, args.conc, args.ke)
    /\ pc' = "done"
    /\ UNCHANGED <<op, args>>

NextWNFloat == call_wagner_nelson_float

SpecWNFloat == InitWNFloat /\ [][NextWNFloat]_vars

DoneWNFloat == pc = "done" /\ op = "wagner_nelson: float"

InitRoundTrip ==
    /\ pc = "call"
    /\ op = "numerical_deconvolution(convolve_dissolution_pk)"
    /\ \E n \in 2..MaxLenRT :
           \E d \in FloatSteps, r \in [1..n -> 0..2], h0 \in 1..2, h1 \in 1..2 :
               args = [times |-> FloatGrid(d, n), r |-> asarray(r),
                       h |-> [i \in 1..n |-> IF i = 1 THEN R(h0) ELSE R(h1)],
                       dt |-> d]
    /\ ret = NoRet

\* conc = convolve_dissolution_pk(times, r, h);
\* numerical_deconvolution(times, conc, h, dt=d)
call_round_trip ==
    /\ pc = "call"
    /\ op = "numerical_deconvolution(convolve_dissolution_pk)"
    /\ LET conc == convolve_dissolution_pk_float(args.times, args.r, args.h)
       IN  ret' = [conc   |-> conc,
                   deconv |-> numerical_deconvolution_float(
                                  args.times, conc, args.h, args.dt)]
    /\ pc' = "done"
    /\ UNCHANGED <<op, args>>

NextRoundTrip == call_round_trip

SpecRoundTrip == InitRoundTrip /\ [][NextRoundTrip]_vars

DoneRoundTrip ==
    pc = "done" /\ op = "numerical_deconvolution(convolve_dissolution_pk)"

\* two calls, one after the other, each with its own slider settings
InitLevelB ==
    /\ pc = "call"
    /\ op = "generate_level_b_data"
    /\ \E first \in LevelBInputs, second \in LevelBInputs :
           args = <<first, second>>
    /\ ret = NoRet

call_generate_level_b_data ==
    /\ pc = "call"
    /\ op = "generate_level_b_data"
    /\ ret' = <<generate_level_b_data(args[1].p1_burst_frac,
                                      args[1].p1_burst_k, args[1].p2_k)>>
    /\ pc' = "again"
    /\ UNCHANGED <<op, args>>

call_generate_level_b_data_again ==
    /\ pc = "again"
    /\ op = "generate_level_b_data"
    /\ ret' = Append(ret, generate_level_b_data(args[2].p1_burst_frac,
                                                args[2].p1_burst_k,
                                                args[2].p2_k))
    /\ pc' = "done"
    /\ UNCHANGED <<op, args>>

NextLevelB == call_generate_level_b_data \/ call_generate_level_b_data_again

SpecLevelB == InitLevelB /\ [][NextLevelB]_vars

DoneLevelB == pc = "done" /\ op = "generate_level_b_data"

InitMDTFloat ==
    /\ pc = "call"
    /\ op = "compute_mdt: float"
    /\ \E n \in 2..MaxLenD :
           \E t \in TimeGrids(n), r \in [1..n -> FloatReleases] :
               args = [times |-> t, release |-> r]
    /\ ret = NoRet

call_compute_mdt_float ==
    /\ pc = "call"
    /\ op = "compute_mdt: float"
    /\ ret' = compute_mdt_float(args.times, args.release)
    /\ pc' = "done"
    /\ UNCHANGED <<op, args>>

NextMDTFloat == call_compute_mdt_float

SpecMDTFloat == InitMDTFloat /\ [][NextMDTFloat]_vars

DoneMDTFloat == pc = "done" /\ op = "compute_mdt: float"

InitF2Float ==
    /\ pc = "call"
    /\ op = "compute_f1_f2: float"
    /\ \E n \in 1..MaxLenF :
           \E r \in [1..n -> FloatPercents], t \in [1..n -> {R(0), R(10)}] :
               args = [ref_profile |-> r, test_profile |-> t]
    /\ ret = NoRet

call_compute_f1_f2_float ==
    /\ pc = "call"
    /\ op = "compute_f1_f2: float"
    /\ ret' = compute_f1_f2_float(args.ref_profile, args.test_profile)
    /\ pc' = "done"
    /\ UNCHANGED <<op, args>>

NextF2Float == call_compute_f1_f2_float

SpecF2Float == InitF2Float /\ [][NextF2Float]_vars

DoneF2Float == pc = "done" /\ op = "compute_f1_f2: float"

\* every function of the core, one call per behaviour
Init == InitWN \/ InitReg \/ InitPE \/ InitDiss \/ InitMat \/ InitND
        \/ InitConv \/ InitGenA \/ InitOral
        \/ InitFirstOrder \/ InitSel \/ InitFormulation
        \/ InitWNFloat \/ InitRoundTrip \/ InitLevelB \/ InitMDTFloat
        \/ InitF2Float

Next == NextWN \/ NextReg \/ NextPE \/ NextDiss \/ NextMat \/ NextND
        \/ NextConv \/ NextGenA \/ NextOral
        \/ NextFirstOrder \/ NextSel \/ NextFormulation
        \/ NextWNFloat \/ NextRoundTrip \/ NextLevelB \/ NextMDTFloat
        \/ NextF2Float

Spec == Init /\ [][Next]_vars

\* C1: every element of the fraction_absorbed array returned by wagner_nelson
\* lies in [0, 1], for any concentrations, any strictly increasing time grid
\* and any ke, positive or not.
C1_FractionBounded ==
    DoneWN =>
        \A i \in 1..Len(ret.fraction_absorbed) :
            /\ RLe(R(0), ret.fraction_absorbed[i])
            /\ RLe(ret.fraction_absorbed[i], R(1))

\* a call whose unclipped quotient leaves [0, 1] on both sides
C1_Witness ==
    /\ DoneWN
    /\ RGt(RMul(args.ke, ret.auc_total), R(0))
    /\ \E i \in 1..Len(ret.amount_absorbed) :
           RLt(ret.amount_absorbed[i], R(0))
    /\ \E i \in 1..Len(ret.amount_absorbed) :
           RGt(ret.amount_absorbed[i], RMul(args.ke, ret.auc_total))
    /\ \E i \in 1..Len(ret.fraction_absorbed) :
           RGt(ret.fraction_absorbed[i], R(0))

\* the sum the claim writes for auc_cumulative[i]
RECURSIVE C2_Auc(_, _, _)
C2_Auc(t, c, i) ==
    IF i = 1 THEN R(0)
    ELSE RAdd(C2_Auc(t, c, i - 1),
              RDiv(RMul(RAdd(c[i - 1], c[i]), RSub(t[i], t[i - 1])), R(2)))

C2_Total(t, c, ke) ==
    IF RGt(ke, R(0)) THEN RAdd(C2_Auc(t, c, Len(t)), RDiv(c[Len(t)], ke))
    ELSE C2_Auc(t, c, Len(t))

C2_Clipped(x) == IF RLt(x, R(0)) THEN R(0) ELSE IF RGt(x, R(1)) THEN R(1) ELSE x

C2_Formulas ==
    LET t  == asarray(args.times)
        c  == asarray(args.conc)
        ke == args.ke
        d  == RMul(ke, C2_Total(t, c, ke))
    IN  /\ \A i \in 1..Len(t) : ret.auc_cumulative[i] = C2_Auc(t, c, i)
        /\ ret.auc_total = C2_Total(t, c, ke)
        /\ Len(ret.fraction_absorbed) = Len(t)
        /\ \A i \in 1..Len(t) :
              /\ ~IsNaN(ret.fraction_absorbed[i])
              /\ ret.fraction_absorbed[i] =
                    IF RGt(d, R(0))
                    THEN C2_Clipped(RDiv(RAdd(c[i], RMul(ke, C2_Auc(t, c, i))), d))
                    ELSE R(0)

C2_AllZero == \A i \in 1..Len(ret.fraction_absorbed) : ret.fraction_absorbed[i] = R(0)

\* C2 as stated: the sums and quotients of wagner_nelson, and "ke <= 0 or a
\* zero total AUC gives an all-zero curve".
C2_Original ==
    DoneWN =>
        /\ C2_Formulas
        /\ (RLe(args.ke, R(0)) \/ ret.auc_total = R(0)) => C2_AllZero

\* C2 amended: wagner_nelson computes auc_cumulative, auc_total and
\* fraction_absorbed by the stated sums and quotients (all zero when
\* ke * auc_total <= 0); the curve is all zero when ke = 0, when ke < 0 and the
\* total AUC is >= 0, or when the total AUC is 0.
C2_Amended ==
    DoneWN =>
        /\ C2_Formulas
        /\ (\/ args.ke = R(0)
            \/ (RLt(args.ke, R(0)) /\ RLe(R(0), ret.auc_total))
            \/ ret.auc_total = R(0)) => C2_AllZero

\* a call with ke > 0 on three samples whose curve has an unclipped interior
\* value and reaches 1
C2_Witness ==
    /\ DoneWN
    /\ Len(args.times) >= 3
    /\ RGt(args.ke, R(0))
    /\ RGt(RMul(args.ke, ret.auc_total), R(0))
    /\ \E i \in 1..Len(ret.fraction_absorbed) :
           /\ RGt(ret.fraction_absorbed[i], R(0))
           /\ RLt(ret.fraction_absorbed[i], R(1))
    /\ \E i \in 1..Len(ret.fraction_absorbed) : ret.fraction_absorbed[i] = R(1)

\* the data pairs of a call, as the claims count them: level_a_correlation
\* pairs the k-th values of the two arrays of each formulation present in both
\* lists, level_c_correlation the k-th in vitro with the k-th in vivo value
RECURSIVE PairsA(_, _)
PairsA(d, a) ==
    IF d = <<>> \/ a = <<>> THEN <<>>
    ELSE [k \in 1..Min(Len(d[1]), Len(a[1])) |-> <<R(d[1][k]), R(a[1][k])>>]
         \o PairsA(Tail(d), Tail(a))

Pairs ==
    IF op = "level_a_correlation"
    THEN PairsA(args.dissolved_fractions, args.absorbed_fractions)
    ELSE [k \in 1..Len(args.in_vitro_values) |->
             <<R(args.in_vitro_values[k]), R(args.in_vivo_values[k])>>]

\* C3: level_a_correlation with fewer than 2 pooled pairs and
\* level_c_correlation with 0 or 1 paired observations return slope 0,
\* intercept 0, r_squared 0, p_value 1, std_err 0 and the input arrays, and
\* raise nothing.
C3_Sentinel ==
    ((DoneA \/ DoneC) /\ Len(Pairs) < 2) =>
        /\ ret.result.fault = "none"
        /\ ret.result.slope = R(0)
        /\ ret.result.intercept = R(0)
        /\ ret.result.r_squared = R(0)
        /\ ret.result.p_value = R(1)
        /\ ret.result.std_err = R(0)
        /\ DoneA => /\ ret.all_dissolved = [k \in 1..Len(Pairs) |-> Pairs[k][1]]
                    /\ ret.all_absorbed = [k \in 1..Len(Pairs) |-> Pairs[k][2]]
        /\ DoneC => /\ ret.in_vitro = asarray(args.in_vitro_values)
                    /\ ret.in_vivo = asarray(args.in_vivo_values)

\* level_a_correlation returned for two formulations that pool to one pair
C3_Witness ==
    /\ DoneA
    /\ Len(args.dissolved_fractions) = 2
    /\ Len(args.dissolved_fractions[1]) = 2
    /\ Len(Pairs) = 1
    /\ ret.result = sentinel

\* C4 as stated: with exactly 2 distinct paired points both correlations
\* return r_squared = 1.
C4_TwoPointsPerfect ==
    ((DoneA \/ DoneC) /\ Len(Pairs) = 2 /\ Pairs[1] # Pairs[2]) =>
        /\ ret.result.fault = "none"
        /\ ret.result.r_squared = R(1)

\* C5: compute_prediction_error returns pe_values[i] = (predicted[i] -
\* observed[i]) / observed[i] * 100 where observed[i] # 0 and 0 where
\* observed[i] = 0, abs_pe[i] = |pe_values[i]|, and raises nothing on a zero
\* observed value.
C5_PerItem ==
    DonePE =>
        /\ Len(ret.pe_values) = Len(args.observed)
        /\ Len(ret.abs_pe) = Len(args.observed)
        /\ \A i \in 1..Len(args.observed) :
              LET p  == args.predicted[i]
                  o  == args.observed[i]
                  pe == ret.pe_values[i]
              IN  /\ ~IsNaN(pe)
                  /\ o # 0 => pe[1] * o = (p - o) * 100 * pe[2]
                  /\ o = 0 => pe = R(0)
                  /\ ret.abs_pe[i] = (IF RLt(pe, R(0)) THEN RSub(R(0), pe) ELSE pe)

\* a call with a zero observed value next to a non-zero prediction and an item
\* with a negative error
C5_Witness ==
    /\ DonePE
    /\ \E i \in 1..Len(args.observed) :
           args.observed[i] = 0 /\ args.predicted[i] # 0
    /\ \E i \in 1..Len(args.observed) : RLt(ret.pe_values[i], R(0))

\* C6: passes_mean is true exactly when mean_abs_pe <= 10, passes_individual
\* exactly when max_abs_pe <= 15, and passes_overall is their conjunction.
C6_PassFlags ==
    DonePE =>
        /\ ret.passes_mean =
              (~IsNaN(ret.mean_abs_pe) /\
               ret.mean_abs_pe[1] <= 10 * ret.mean_abs_pe[2])
        /\ ret.passes_individual =
              (~IsNaN(ret.max_abs_pe) /\
               ret.max_abs_pe[1] <= 15 * ret.max_abs_pe[2])
        /\ ret.passes_overall = (ret.passes_mean /\ ret.passes_individual)

\* a result on both limits: mean exactly 10 and maximum exactly 15
C6_Witness ==
    /\ DonePE
    /\ ret.mean_abs_pe = R(10)
    /\ ret.max_abs_pe = R(15)
    /\ ret.passes_overall

\* C7: compute_prediction_error(v, v) on a non-empty v returns all pe_values
\* 0, mean_abs_pe 0, max_abs_pe 0 and the three pass flags true.
C7_Identical ==
    (DonePE /\ args.predicted = args.observed /\ Len(args.observed) > 0) =>
        /\ \A i \in 1..Len(ret.pe_values) : ret.pe_values[i] = R(0)
        /\ ret.mean_abs_pe = R(0)
        /\ ret.max_abs_pe = R(0)
        /\ ret.passes_mean
        /\ ret.passes_individual
        /\ ret.passes_overall

\* v compared with itself, v holding a zero and a negative value
C7_Witness ==
    /\ DonePE
    /\ args.predicted = args.observed
    /\ \E i \in 1..Len(args.observed) : args.observed[i] = 0
    /\ \E i \in 1..Len(args.observed) : args.observed[i] < 0
    /\ ret.passes_overall

RECURSIVE C9_Moment(_, _, _)
C9_Moment(t, F, k) ==
    IF k = 0 THEN R(0)
    ELSE RAdd(C9_Moment(t, F, k - 1),
              RMul(RDiv(R(t[k] + t[k + 1]), R(2)), R(F[k + 1] - F[k])))

RECURSIVE C9_Total(_, _)
C9_Total(F, k) ==
    IF k = 0 THEN R(0) ELSE RAdd(C9_Total(F, k - 1), R(F[k + 1] - F[k]))

\* C9: compute_mdt returns sum(t_mid[i] * dF[i]) / sum(dF[i]) over the
\* consecutive sample intervals, and 0 whenever the sum of dF is 0, which is
\* whenever the last release value equals the first.
C9_MDT ==
    DoneMDT =>
        LET t == args.times
            F == args.release
            n == Len(t)
        IN  /\ (C9_Total(F, n - 1) = R(0)) = (F[n] = F[1])
            /\ F[n] = F[1] => ret = R(0)
            /\ F[n] # F[1] =>
                  ret = RDiv(C9_Moment(t, F, n - 1), C9_Total(F, n - 1))

\* a profile that rises and falls back to its first value
C9_Witness ==
    /\ DoneMDT
    /\ Len(args.release) = 3
    /\ args.release[2] > args.release[1]
    /\ args.release[3] = args.release[1]
    /\ ret = R(0)

RECURSIVE C10_Area(_, _, _)
C10_Area(t, F, k) ==
    IF k = 0 THEN R(0)
    ELSE RAdd(C10_Area(t, F, k - 1),
              RDiv(R((F[k] + F[k + 1]) * (t[k + 1] - t[k])), R(2)))

\* C10 as stated: compute_de returns 100 * (trapezoidal area under the release
\* curve) / (release_end * t_end) on every grid with time >= 0, also when the
\* first sample time is not 0, and 0 when release_end * t_end is 0.
C10_DE ==
    DoneDE =>
        LET t == args.times
            F == args.release
            n == Len(t)
            rect == F[n] * t[n]
        IN  ret = IF rect = 0 THEN R(0)
                  ELSE RDiv(RMul(R(100), C10_Area(t, F, n - 1)), R(rect))

\* the fit of the pair (iv_names[i], vivo_names[j]) taken on its own
C11_Fit(i, j) ==
    level_c_correlation(args.in_vitro_params[args.iv_names[i]],
                        args.in_vivo_params[args.vivo_names[j]]).result

\* C11: build_correlation_matrix returns three matrices of shape
\* len(iv_names) x len(vivo_names) whose entries [i][j] are the r_squared,
\* slope and p_value of level_c_correlation on the pair (iv_names[i],
\* vivo_names[j]) alone.
C11_Matrix ==
    (DoneMat /\ ret.fault = "none") =>
        LET n_iv   == Len(args.iv_names)
            n_vivo == Len(args.vivo_names)
        IN  /\ Len(ret.r_squared_matrix) = n_iv
            /\ Len(ret.slope_matrix) = n_iv
            /\ Len(ret.p_value_matrix) = n_iv
            /\ \A i \in 1..n_iv :
                  /\ Len(ret.r_squared_matrix[i]) = n_vivo
                  /\ Len(ret.slope_matrix[i]) = n_vivo
                  /\ Len(ret.p_value_matrix[i]) = n_vivo
                  /\ \A j \in 1..n_vivo :
                        LET fit == C11_Fit(i, j)
                        IN  /\ fit.fault = "none"
                            /\ ret.r_squared_matrix[i][j] = fit.r_squared
                            /\ ret.slope_matrix[i][j] = fit.slope
                            /\ ret.p_value_matrix[i][j] = fit.p_value

\* a 2 x 2 table over three formulations whose four cells have different
\* slopes or r_squared
C11_Witness ==
    /\ DoneMat
    /\ ret.fault = "none"
    /\ Len(args.iv_names) = 2
    /\ Len(args.vivo_names) = 2
    /\ Len(args.in_vitro_params["MDT"]) = 3
    /\ ret.slope_matrix[1][1] # ret.slope_matrix[1][2]
    /\ ret.slope_matrix[1][1] # ret.slope_matrix[2][1]
    /\ ret.r_squared_matrix[1][2] # ret.r_squared_matrix[2][2]

\* the pairs formulation f contributes: as many as its shorter array has values
C12_Count(f) ==
    LET nd == Len(args.dissolved_fractions[f])
        na == Len(args.absorbed_fractions[f])
    IN  IF nd <= na THEN nd ELSE na

\* the formulations present in both lists
C12_Formulations ==
    IF Len(args.dissolved_fractions) <= Len(args.absorbed_fractions)
    THEN Len(args.dissolved_fractions)
    ELSE Len(args.absorbed_fractions)

\* the pairs contributed by the formulations before f
RECURSIVE C12_Offset(_)
C12_Offset(f) == IF f = 1 THEN 0 ELSE C12_Offset(f - 1) + C12_Count(f - 1)

\* C12: all_dissolved and all_absorbed are the concatenation, in formulation
\* order, of each formulation's first min(len(dissolved), len(absorbed))
\* values: they have equal length and element k of both comes from the same
\* formulation and timepoint.
C12_Pooled ==
    (DoneA /\ ret.result.fault = "none") =>
        /\ Len(ret.all_dissolved) = C12_Offset(C12_Formulations + 1)
        /\ Len(ret.all_absorbed) = Len(ret.all_dissolved)
        /\ \A f \in 1..C12_Formulations : \A k \in 1..C12_Count(f) :
              /\ ret.all_dissolved[C12_Offset(f) + k]
                    = R(args.dissolved_fractions[f][k])
              /\ ret.all_absorbed[C12_Offset(f) + k]
                    = R(args.absorbed_fractions[f][k])

\* two formulations whose arrays differ in length on opposite sides, pooled
\* and fitted
C12_Witness ==
    /\ DoneA
    /\ ret.result.fault = "none"
    /\ C12_Formulations = 2
    /\ Len(args.dissolved_fractions[1]) = 2
    /\ Len(args.absorbed_fractions[1]) = 1
    /\ Len(args.dissolved_fractions[2]) = 1
    /\ Len(args.absorbed_fractions[2]) = 2
    /\ Len(ret.all_dissolved) = 2
    /\ ret.result.slope # R(0)

\* the integral of the returned input_rate over the sample times, by the
\* trapezoid rule
RECURSIVE C13_Integral(_)
C13_Integral(i) ==
    IF i = 1 THEN R(0)
    ELSE RAdd(C13_Integral(i - 1),
              RMul(RMul(<<1, 2>>,
                        RAdd(ret.input_rate[i - 1], ret.input_rate[i])),
                   R(args.times[i] - args.times[i - 1])))

\* C13: on a non-empty series with strictly increasing times
\* numerical_deconvolution returns an input_rate with every element >= 0 and
\* a non-decreasing fraction_absorbed within [0, 1] that starts at 0, ends at
\* exactly 1 when the integrated rate is positive, and is all zeros when the
\* integrated rate is 0 or the first impulse response sample is <= 0.
C13_RateAndFraction ==
    (DoneND /\ Len(args.times) >= 1) =>
        LET n        == Len(args.times)
            fa       == ret.fraction_absorbed
            integral == C13_Integral(n)
        IN  /\ ret.fault = "none"
            /\ Len(ret.input_rate) = n
            /\ Len(fa) = n
            /\ \A i \in 1..n : RLe(R(0), ret.input_rate[i])
            /\ \A i \in 1..n : RLe(R(0), fa[i]) /\ RLe(fa[i], R(1))
            /\ \A i \in 1..(n - 1) : RLe(fa[i], fa[i + 1])
            /\ fa[1] = R(0)
            /\ RGt(integral, R(0)) => fa[n] = R(1)
            /\ (integral = R(0) \/ args.impulse_response[1] <= 0) =>
                  \A i \in 1..n : fa[i] = R(0)

\* a three-sample series whose second rate comes out negative before the
\* floor and whose fraction rises to 1 at the last sample only
C13_Witness ==
    /\ DoneND
    /\ Len(args.times) = 3
    /\ RLt(rate_loop(asarray(args.times), asarray(args.conc),
                     asarray(args.impulse_response), args.dt, 3)[2], R(0))
    /\ ret.input_rate[2] = R(0)
    /\ RGt(ret.fraction_absorbed[2], R(0))
    /\ RLt(ret.fraction_absorbed[2], R(1))
    /\ ret.fraction_absorbed[3] = R(1)

\* rate[0] * h[i] + ... + rate[j] * h[i - j], indices from 0
RECURSIVE C14_Sum(_, _)
C14_Sum(i, j) ==
    IF j < 0 THEN R(0)
    ELSE RAdd(C14_Sum(i, j - 1),
              R(args.dissolution_rate[j + 1] * args.impulse_resp[i - j + 1]))

C14_Dt ==
    IF Len(args.times) >= 2 THEN R(args.times[2] - args.times[1]) ELSE R(1)

C14_Formula ==
    /\ ret.fault = "none"
    /\ Len(ret.conv) = Len(args.times)
    /\ \A i \in 0..(Len(args.times) - 1) :
          ret.conv[i + 1] = RMul(C14_Dt, C14_Sum(i, i))

\* C14 as stated: on every evenly spaced grid of n points, the empty grid
\* included, convolve_dissolution_pk returns exactly n values with
\* out[i] = dt * sum_{j=0..i} rate[j] * h[i-j].
C14_Original == DoneConv => C14_Formula

\* C14: on an evenly spaced grid of n >= 1 points convolve_dissolution_pk
\* returns exactly n values with out[i] = dt * sum_{j=0..i} rate[j] * h[i-j],
\* dt = times[1] - times[0] (dt = 1 for a single point); on the empty grid
\* the call raises ValueError.
C14_Amended ==
    DoneConv => IF Len(args.times) >= 1 THEN C14_Formula
                ELSE ret.fault = "ValueError"

\* a three-point grid with step 2 whose last value sums three products
C14_Witness ==
    /\ DoneConv
    /\ Len(args.times) = 3
    /\ args.times[2] - args.times[1] = 2
    /\ \A j \in 1..3 : args.dissolution_rate[j] # 0 /\ args.impulse_resp[j] # 0
    /\ ret.conv[3] # R(0)
    /\ ret.conv[3] # ret.conv[2]

\* the zero fallback of compute_prediction_error is taken for some item
C15_Fallback(a) == \E i \in 1..Len(a.observed) : a.observed[i] = 0

\* every item takes the regular path
C15_Regular(a) ==
    /\ Len(a.observed) >= 1
    /\ \A i \in 1..Len(a.observed) : a.observed[i] # 0

\* C15 as stated, for compute_prediction_error: a result of the regular path
\* differs, in its returned fields, from every result in which the zero
\* fallback for an observed value of 0 was taken.
C15_Distinguishable ==
    (DonePE /\ C15_Regular(args)) =>
        \A d \in PEInputs(MaxLenPE) :
            C15_Fallback(d) =>
                compute_prediction_error(d.predicted, d.observed) # ret

\* what the sequential loop leaves under every key
C17_Sequential ==
    generate_level_a_data(args.k_fast, args.k_medium, args.k_slow)

C18_WithinTolerance(d) == d[1] <= d[2] \div 1000000

\* C18: for the plasma curve of a one-compartment oral dose (non-negative,
\* absorption faster than, equal to or slower than elimination) and the
\* elimination rate ke > 0 it was generated with, the fraction_absorbed of
\* wagner_nelson is non-decreasing: fa[i+1] >= fa[i] - 1e-6.  The rational
\* values of ke enclose -ln(u), and the sign of fa[i+1] - fa[i] is that of a
\* value affine in ke, so the inequality at both ends gives it in between.
C18_NonDecreasing ==
    DoneOral =>
        LET fa == ret.wn.fraction_absorbed
        IN  /\ \A i \in 1..Len(ret.pk) : RLe(R(0), ret.pk[i])
            /\ RGt(args.ke, R(0))
            /\ \A i \in 1..(Len(fa) - 1) :
                  C18_WithinTolerance(RSub(fa[i], fa[i + 1]))

\* a curve sampled past its peak, whose fraction absorbed rises strictly at
\* every sample
C18_Witness ==
    /\ DoneOral
    /\ Len(args.times) = 4
    /\ RGt(ret.pk[2], ret.pk[3])
    /\ RGt(ret.pk[3], ret.pk[4])
    /\ \A i \in 1..3 : RLt(ret.wn.fraction_absorbed[i],
                           ret.wn.fraction_absorbed[i + 1])
    /\ RLt(ret.wn.fraction_absorbed[3], R(1))

\* the call of the scenario: times [0, 1, 2, 4, 8, 24], k = 0.3, Fmax = 100
C19_Scenario ==
    /\ DoneFirstOrder
    /\ args.times = ScenarioTimes
    /\ args.k = <<3, 10>>
    /\ args.f_max = R(100)

\* the profile the scenario states: [0, 25.9, 45.1, 69.9, 90.9, 99.94]
C19_Stated ==
    <<R(0), <<259, 10>>, <<451, 10>>, <<699, 10>>, <<909, 10>>,
      <<9994, 100>>>>

\* |a - b| <= 0.1
C19_Near(a, b) == RLe(RAbs(RSub(a, b)), <<1, 10>>)

\* C19 as stated: on the first-order profile of the scenario compute_mdt
\* returns 1/k = 3.33 h within 0.1.
C19_Original == C19_Scenario => C19_Near(ret.mdt, <<10, 3>>)

\* C19: on times [0, 1, 2, 4, 8, 24] with k = 0.3 and Fmax = 100,
\* first_order_release returns the stated profile within 0.1 and compute_mdt
\* of it returns a value between 3.86 and 3.87 h, not 1/k = 3.33 h.
C19_Amended ==
    C19_Scenario =>
        /\ \A i \in 1..Len(ScenarioTimes) : C19_Near(ret.diss[i], C19_Stated[i])
        /\ RLe(<<386, 100>>, ret.mdt)
        /\ RLe(ret.mdt, <<387, 100>>)

\* the scenario computed from the upper end of every enclosure of np.exp
C19_Witness ==
    /\ C19_Scenario
    /\ ret.diss[2] = Norm(2591, 100)
    /\ ret.diss[6] = Norm(9992, 100)
    /\ RGt(ret.mdt, R(0))

\* what the BCS class of number c (1 to 4) is stated to add
score_q6_class(st, c) ==
    CASE c = 1 ->
           [st EXCEPT
               !.score_C = @ + 1,
               !.caveats = Append(@,
                   "BCS Class I drugs (high sol/high perm) rarely need IVIVC - dissolution is usually not rate-limiting")]
      [] c = 2 ->
           [st EXCEPT
               !.score_A = @ + 2,
               !.reasons_A = Append(@,
                   "BCS Class II is the best candidate for IVIVC (dissolution is rate-limiting for absorption)")]
      [] c = 3 ->
           [st EXCEPT
               !.score_C = @ + 1,
               !.caveats = Append(@,
                   "BCS Class III (permeability-limited) makes IVIVC challenging - dissolution may not predict absorption")]
      [] c = 4 ->
           [st EXCEPT
               !.score_C = @ + 1,
               !.caveats = Append(@,
                   "BCS Class IV drugs are the most challenging for IVIVC - both dissolution and permeability are limiting")]

\* the scores, reasons and caveats after questions 1 to 5
C20_Before ==
    score_q5(score_q4(score_q3(score_q2(score_q1(scores_init, args.q1),
                                        args.q2), args.q3), args.q4), args.q5)

\* C20 as stated: question 6 adds, for 'Class I', 1 to Level C with the
\* Class I caveat; for 'Class II', 2 to Level A with its reason and nothing
\* to Level C; for 'Class III', 1 to Level C with the Class III caveat; for
\* 'Class IV', 1 to Level C with the Class IV caveat.
C20_BCS ==
    (DoneSel /\ ret.warning = "") =>
        LET before == C20_Before
            after  == ret.scores
        IN  /\ after.score_B = before.score_B
            /\ args.q6 = Q6Options[1] =>
                  after = score_q6_class(before, 1)
            /\ args.q6 = Q6Options[2] =>
                  after = score_q6_class(before, 2)
            /\ args.q6 = Q6Options[3] =>
                  after = score_q6_class(before, 3)
            /\ args.q6 = Q6Options[4] =>
                  after = score_q6_class(before, 4)

\* sum over j < i of r[j] * h[i - j] * (t[j + 1] - t[j]), indices from 1
RECURSIVE C21_Contribution(_, _, _)
C21_Contribution(r, i, j) ==
    IF j = 0 THEN R(0)
    ELSE RAdd(C21_Contribution(r, i, j - 1),
              RMul(RMul(r[j], R(args.impulse_response[i - j + 1])),
                   R(args.times[j + 1] - args.times[j])))

\* (C[i] - contribution of r[1..i-1]) / (h[0] * step)
C21_Rate(r, i, step) ==
    RDiv(RSub(R(args.conc[i]), C21_Contribution(r, i, i - 1)),
         RMul(R(args.impulse_response[1]), step))

\* the values solved one after the other, before any floor: the first with the
\* dt parameter as its step, the others with the step of the grid
RECURSIVE C21_Solved(_)
C21_Solved(i) ==
    IF i = 0 THEN <<>>
    ELSE LET r == C21_Solved(i - 1)
         IN  Append(r, C21_Rate(r, i,
                                IF i = 1 THEN args.dt
                                ELSE R(args.times[i] - args.times[i - 1])))

C21_LocalStep(i) ==
    IF i = 1 THEN R(args.times[2] - args.times[1])
    ELSE R(args.times[i] - args.times[i - 1])

\* C21 as stated: at every index, the first included, the returned rate is
\* (C[i] - sum_{j<i} r[j] * h[i-j] * (t[j+1] - t[j])) / (h[0] * local step of
\* the grid at i), floored at 0, where the r[j] of the sum are the returned
\* non-negative rates.
C21_Original ==
    (DoneND /\ Len(args.times) >= 2 /\ args.impulse_response[1] > 0) =>
        \A i \in 1..Len(args.times) :
            ret.input_rate[i] =
                RMax(R(0), C21_Rate(ret.input_rate, i, C21_LocalStep(i)))

\* C21 amended: the returned rate at every index is the floor at 0 of the
\* value solved there, where the first value is C[0] / (h[0] * dt) with the dt
\* parameter, every later one divides by h[0] * (t[i] - t[i-1]), and the sum
\* is taken over the solved values before they are floored.
C21_Amended ==
    (DoneND /\ Len(args.times) >= 1 /\ args.impulse_response[1] > 0) =>
        /\ ret.fault = "none"
        /\ \A i \in 1..Len(args.times) :
              ret.input_rate[i] =
                  RMax(R(0), C21_Solved(Len(args.times))[i])

\* three samples on a unit grid with dt = 0.1: the first rate is ten times
\* C[0] / h[0], the second solved value is negative and returned as 0, and the
\* third differs from what the returned rates would give
C21_Witness ==
    /\ DoneND
    /\ Len(args.times) = 3
    /\ args.impulse_response[1] > 0
    /\ args.dt = <<1, 10>>
    /\ args.times[2] - args.times[1] = 1
    /\ RGt(ret.input_rate[1], R(0))
    /\ RLt(C21_Solved(3)[2], R(0))
    /\ ret.input_rate[2] = R(0)
    /\ RGt(ret.input_rate[3], R(0))
    /\ ret.input_rate[3] # RMax(R(0), C21_Rate(ret.input_rate, 3, C21_LocalStep(3)))

C22_AllZero(s) == \A i \in 1..Len(s) : s[i] = R(0)

\* C22: a formulation whose dissolution rate constant is 0 goes through the
\* whole chain of generate_level_a_data: its dissolution profile, its
\* concentration profile and its fraction absorbed are all zeros, Cmax, AUC,
\* MRT, MDT and DE are 0 and t50 is infinity.
C22_ZeroRate ==
    (DoneFormulation /\ args.k = R(0)) =>
        /\ Len(ret.dissolution_profile) = Len(args.times_diss)
        /\ C22_AllZero(ret.dissolution_profile)
        /\ Len(ret.pk_profile) = Len(args.times_pk)
        /\ C22_AllZero(ret.pk_profile)
        /\ Len(ret.fraction_absorbed.fraction_absorbed) = Len(args.times_pk)
        /\ C22_AllZero(ret.fraction_absorbed.fraction_absorbed)
        /\ ret.pk_params.Cmax = R(0)
        /\ ret.pk_params.AUC = R(0)
        /\ ret.pk_params.MRT = R(0)
        /\ ret.dissolution_params.MDT = R(0)
        /\ ret.dissolution_params.DE = R(0)
        /\ ret.dissolution_params.t50 = <<"inf">>

\* the formulation with k = 0 on the five-point plasma grid has returned
C22_Witness ==
    /\ DoneFormulation
    /\ args.k = R(0)
    /\ args.times_pk = <<0, 1, 2, 3, 4>>
    /\ Len(args.times_diss) = 6
    /\ ret.pk_params.Tmax = R(0)
    /\ ret.fraction_absorbed.auc_total = R(0)

\* denom = ke * auc_total
C23_Denom == float_round(RMul(args.ke, ret.auc_total))

\* non-negative concentrations, ke > 0 and a positive denominator
C23_Case ==
    /\ DoneWNFloat
    /\ \A i \in 1..Len(args.conc) : args.conc[i] >= 0
    /\ RGt(args.ke, R(0))
    /\ RGt(C23_Denom, R(0))

C23_Last == ret.fraction_absorbed[Len(args.times)]

C24_Answered == DoneSel /\ ret.warning = ""

\* C24: for every complete combination of answers Level C's score is strictly
\* greater than Level B's score, and the recommended level is never Level B.
C24_NeverLevelB ==
    C24_Answered =>
        /\ ret.scores.score_C > ret.scores.score_B
        /\ ret.recommended # "Level B"

\* answers that give Level B its 3 points and Level A fewer, and Level C more
C24_Witness ==
    /\ C24_Answered
    /\ ret.scores.score_B > ret.scores.score_A
    /\ ret.scores.score_B = 3
    /\ ret.recommended = "Level C"

\* C28: a recommendation names a level whose score is the largest of the
\* three, and among equal largest scores the first of Level A, Level B,
\* Level C.
C28_MaximalScore ==
    C24_Answered =>
        LET a == ret.scores.score_A
            b == ret.scores.score_B
            c == ret.scores.score_C
        IN  /\ ret.recommended \in {"Level A", "Level B", "Level C"}
            /\ ret.recommended = "Level A" => (a >= b /\ a >= c)
            /\ ret.recommended = "Level B" => (b > a /\ b >= c)
            /\ ret.recommended = "Level C" => (c > a /\ c > b)
            /\ ret.max_score = Max(a, Max(b, c))

\* Level A and Level C share the largest score and Level A is recommended
C28_Witness ==
    /\ C24_Answered
    /\ ret.scores.score_A = ret.scores.score_C
    /\ ret.scores.score_A > ret.scores.score_B
    /\ ret.recommended = "Level A"

\* the grid is evenly spaced as computed: every difference of neighbours is d
C25_Even ==
    \A i \in 1..(Len(args.times) - 1) :
        fsub(args.times[i + 1], args.times[i]) = args.dt

\* a non-negative rate, h[0] > 0, an evenly spaced grid of at least 2 points
C25_Case ==
    /\ DoneRoundTrip
    /\ Len(args.times) >= 2
    /\ C25_Even
    /\ RGt(args.h[1], R(0))
    /\ \A i \in 1..Len(args.r) : RLe(R(0), args.r[i])

C26_Defined ==
    DonePE =>
        /\ ~IsNaN(ret.mean_abs_pe)
        /\ ~IsNaN(ret.max_abs_pe)
        /\ Len(args.predicted) = 0 =>
               (ret.mean_abs_pe = R(0) /\ ret.max_abs_pe = R(0))

\* C27: two calls of generate_level_b_data that differ only in p1_burst_frac,
\* p1_burst_k or p2_k return identical P1_pk, P2_pk, MRT_P1 and MRT_P2.
C27_Independent ==
    DoneLevelB =>
        /\ ret[1].P1_pk = ret[2].P1_pk
        /\ ret[1].P2_pk = ret[2].P2_pk
        /\ ret[1].MRT_P1 = ret[2].MRT_P1
        /\ ret[1].MRT_P2 = ret[2].MRT_P2

\* two calls that differ in all three settings and return different
\* dissolution profiles and different MDTs for both members of the pair
C27_Witness ==
    /\ DoneLevelB
    /\ args[1].p1_burst_frac # args[2].p1_burst_frac
    /\ args[1].p1_burst_k # args[2].p1_burst_k
    /\ args[1].p2_k # args[2].p2_k
    /\ ret[1].P1_dissolution # ret[2].P1_dissolution
    /\ ret[1].P2_dissolution # ret[2].P2_dissolution
    /\ ret[1].MDT_P1 # ret[2].MDT_P1
    /\ ret[1].MDT_P2 # ret[2].MDT_P2
    /\ RGt(ret[1].MRT_P1, R(0))
    /\ ret[1].MRT_P1 # ret[1].MRT_P2

\* a non-decreasing release profile whose last value is above its first
C29_Case ==
    /\ DoneMDTFloat
    /\ \A i \in 1..(Len(args.release) - 1) :
           args.release[i] <= args.release[i + 1]
    /\ args.release[Len(args.release)] > args.release[1]

\* (t[0] + t[1]) / 2 and (t[n-2] + t[n-1]) / 2
C29_FirstMid == Norm(args.times[1] + args.times[2], 2)
C29_LastMid ==
    Norm(args.times[Len(args.times) - 1] + args.times[Len(args.times)], 2)

C30_MeanSquare ==
    LET n == Len(args.ref_profile)
    IN  RDiv(RSum([i \in 1..n |->
                      RMul(RSub(args.ref_profile[i], args.test_profile[i]),
                           RSub(args.ref_profile[i], args.test_profile[i]))]),
             R(n))

C30_Margin == Norm(8, Pow2(Precision))

====
